---- MODULE Spec2Model ----
(***************************************************************************)
(* A model of the HEVC sequence-parameter-set parser (src/nal/sps.rs) and  *)
(* of the bounded parameter-set identifier (src/nal/pps.rs).               *)
(*                                                                         *)
(* A parser function fn read(r) -> Result<T, E> is modelled as an        *)
(* operator from a reader context to the SET of its possible outcomes, one *)
(* outcome per choice of the bits that the reader finds in the buffer:     *)
(*     [ok |-> TRUE,  ctx |-> reader afterwards, val |-> T]                *)
(*     [ok |-> FALSE, ctx |-> reader afterwards, err |-> E]                *)
(* The ? operator is Bind: an error outcome ends the function at once.   *)
(* A panic is an error outcome of kind "panic" (it unwinds the same way).  *)
(*                                                                         *)
(* Machine integers are scaled: a u32 of the program is a WordBits-bit     *)
(* unsigned word and an i32 a WordBits-bit two's complement word, so that  *)
(* overflow, wrap-around and the Exp-Golomb range limit happen at          *)
(* 2^WordBits instead of 2^32.                                             *)
(***************************************************************************)
EXTENDS Integers, Sequences, FiniteSets, TLC

VARIABLES
    entry,      \* which public operation this behaviour runs
    pc,         \* the next syntax element of the running operation
    ctx,        \* the bit reader
    fields,     \* the values parsed so far that later elements depend on
    log,        \* the syntax elements consumed so far, in order
    result,     \* what the operation returned
    arg         \* the operation's arguments (pure operations)

vars == <<entry, pc, ctx, fields, log, result, arg>>

---------------------------------------------------------------------------
(* Bounds of the model *)

\* Width of the scaled machine word (u32 / i32 of the program)
WordBits == 12

U32Max == 2^WordBits - 1
I32Max == 2^(WordBits - 1) - 1
I32Min == -(2^(WordBits - 1))

---------------------------------------------------------------------------
(* Errors: SpsError, BitReaderError, ParamSetIdError; and panics *)

NoErr == [kind |-> "none", why |-> "", name |-> "", value |-> 0]
RbspReaderError(why, label) ==
    [kind |-> "RbspReaderError", why |-> why, name |-> label, value |-> 0]
BadSeqParamSetId(id) ==
    [kind |-> "BadSeqParamSetId", why |-> "IdTooLarge", name |-> "", value |-> id]
BadVideoParamSetId(id) ==
    [kind |-> "BadVideoParamSetId", why |-> "IdTooLarge", name |-> "", value |-> id]
FieldValueTooLarge(name, value) ==
    [kind |-> "FieldValueTooLarge", why |-> "", name |-> name, value |-> value]
IdTooLarge(id) ==
    [kind |-> "IdTooLarge", why |-> "", name |-> "", value |-> id]
Unimplemented(what) ==
    [kind |-> "Unimplemented", why |-> "", name |-> what, value |-> 0]
Panic(msg) ==
    [kind |-> "panic", why |-> "", name |-> msg, value |-> 0]

---------------------------------------------------------------------------
(* Result<T, E> and the ? operator *)

\* The reader notes (ghost fields) the first failure raised on it and how
\* many reader calls were made after that failure.
Ok(c, v) == [ok |-> TRUE, ctx |-> c, val |-> v]
Err(c, e) ==
    [ok |-> FALSE,
     ctx |-> [c EXCEPT !.failed = TRUE, !.first = IF c.failed THEN @ ELSE e],
     err |-> e]

\* let x = f(r)?; rest(x): rest runs on the Ok outcomes only
Bind(outs, Rest(_)) ==
    UNION {IF o.ok THEN Rest(o) ELSE {o} : o \in outs}

\* f(r).map(g)
MapVal(outs, G(_)) ==
    {IF o.ok THEN Ok(o.ctx, G(o.val)) ELSE o : o \in outs}

---------------------------------------------------------------------------
(* Bit reader (crate::rbsp::BitRead) *)

\* pos counts the bits consumed.  The buffer is as long as the reads that
\* succeed need it to be: its bits are chosen when they are read.  Where only
\* the position within the byte matters (aligned), pos is kept modulo 8.
\* build is the build of the program that runs the reader's caller ("debug",
\* "release", or "any" while it is left open); a reader with keep set notes
\* (ghost field values) every value it returns.
Ctx0 ==
    [pos |-> 0, aligned |-> TRUE, window |-> 0, known |-> FALSE, tail |-> <<>>,
     failed |-> FALSE, first |-> NoErr, late |-> 0,
     build |-> "any", keep |-> FALSE, values |-> <<>>, names |-> <<>>]
\* The reader that counts all the bits it has consumed
CtxCounting == [Ctx0 EXCEPT !.aligned = FALSE]
\* The reader that counts the bits it has consumed within a window of
\* 2^PosWindowBits bits, wide enough for the longest structure measured
PosWindowBits == 8
CtxWindow == [Ctx0 EXCEPT !.aligned = FALSE, !.window = 2^PosWindowBits]

Advance(c, n) ==
    [c EXCEPT !.pos = IF c.aligned THEN (@ + n) % 8
                      ELSE IF c.window > 0 THEN (@ + n) % c.window
                      ELSE @ + n]

\* a reader call on a reader that has already failed is a late read
Touch(c) == IF c.failed THEN [c EXCEPT !.late = @ + 1] ELSE c

\* the reader returns v for the element called label
Note(c, label, v) ==
    IF c.keep
    THEN [c EXCEPT !.values = Append(@, v), !.names = Append(@, label)]
    ELSE c

RECURSIVE BitsValue(_)
BitsValue(bits) ==
    IF bits = <<>> THEN 0
    ELSE 2 * BitsValue(SubSeq(bits, 1, Len(bits) - 1)) + bits[Len(bits)]

RECURSIVE Log2Floor(_)
Log2Floor(n) == IF n <= 1 THEN 0 ELSE 1 + Log2Floor(n \div 2)

\* Number of bits of the Exp-Golomb code of v: k zeros, a one, k suffix bits
UeLeadingZeros(v) == Log2Floor(v + 1)
UeCost(v) == 2 * UeLeadingZeros(v) + 1

RECURSIVE LeadingZeros(_)
LeadingZeros(bits) ==
    IF bits = <<>> \/ Head(bits) = 1 THEN 0 ELSE 1 + LeadingZeros(Tail(bits))

\* read_u(n): n bits, most significant first.  While the rest of the buffer
\* has not been looked at (known = FALSE) the bits found are any value of
\* vals, or the buffer ends before n more bits.
read_u(c0, n, vals, label) ==
    LET c == Touch(c0) IN
    IF c.known
    THEN IF Len(c.tail) >= n
         THEN LET v == BitsValue(SubSeq(c.tail, 1, n)) IN
              {Ok(Note([Advance(c, n) EXCEPT !.tail = SubSeq(@, n + 1, Len(@))],
                       label, v), v)}
         ELSE {Err(c, RbspReaderError("OutOfBits", label))}
    ELSE {Ok(Note(Advance(c, n), label, v), v) : v \in vals}
         \cup {Err(c, RbspReaderError("OutOfBits", label))}

read_bool(c, label) == MapVal(read_u(c, 1, {0, 1}, label), LAMBDA v : v = 1)

\* read_ue: Exp-Golomb unsigned code, 2^k - 1 + suffix for k leading zeros;
\* more than WordBits - 1 leading zeros cannot fit the word.
read_ue(c0, vals, label) ==
    LET c == Touch(c0) IN
    IF c.known
    THEN LET k == LeadingZeros(c.tail) IN
         IF k >= Len(c.tail) THEN {Err(c, RbspReaderError("OutOfBits", label))}
         ELSE IF k > WordBits - 1
              THEN {Err(c, RbspReaderError("ExpGolombOverflow", label))}
         ELSE IF Len(c.tail) < 2 * k + 1
              THEN {Err(c, RbspReaderError("OutOfBits", label))}
         ELSE LET v == 2^k - 1 + BitsValue(SubSeq(c.tail, k + 2, 2 * k + 1)) IN
              {Ok(Note([Advance(c, 2 * k + 1) EXCEPT
                              !.tail = SubSeq(@, 2 * k + 2, Len(@))], label, v), v)}
    ELSE {Ok(Note(Advance(c, UeCost(v)), label, v), v)
            : v \in {w \in vals : w <= U32Max - 1}}
         \cup {Err(c, RbspReaderError("OutOfBits", label)),
               Err(c, RbspReaderError("ExpGolombOverflow", label))}

\* read_se: the ue code k mapped to a signed value
SeOfUe(k) == IF k % 2 = 0 THEN k \div 2 ELSE -((k + 1) \div 2)
read_se(c, vals, label) == MapVal(read_ue(c, vals, label), SeOfUe)

\* The rest of the buffer, looked at as a whole by has_more_rbsp_data and
\* finish_rbsp: the bits up to the end of the current byte, or no bits or
\* one more byte when the reader stands on a byte boundary.
MaxTailOnes == 2
BitSeqs(n) ==
    {t \in UNION {[1..m -> {0, 1}] : m \in {n}} :
        Cardinality({i \in 1..n : t[i] = 1}) <= MaxTailOnes}
TailLens(p) == IF p % 8 = 0 THEN {0, 8} ELSE {8 - (p % 8)}
Tails(p) == UNION {BitSeqs(n) : n \in TailLens(p)}
Look(c) ==
    IF c.known THEN {c}
    ELSE {[c EXCEPT !.known = TRUE, !.tail = t] : t \in Tails(c.pos)}

\* has_more_rbsp_data: something other than the stop bit and its padding follows
HasMore(tail) == \E i \in 2..Len(tail) : tail[i] = 1
has_more_rbsp_data(c0, label) ==
    {Ok(c, HasMore(c.tail)) : c \in Look(Touch(c0))}

\* finish_rbsp: only the stop bit and zero padding may remain
IsStopPattern(tail) ==
    /\ Len(tail) >= 1
    /\ tail[1] = 1
    /\ \A i \in 2..Len(tail) : tail[i] = 0
finish_rbsp(c0) ==
    {IF IsStopPattern(c.tail)
          THEN Ok([Advance(c, Len(c.tail)) EXCEPT !.tail = <<>>], TRUE)
          ELSE Err(c, RbspReaderError("TrailingData", "finish"))
       : c \in Look(Touch(c0))}

---------------------------------------------------------------------------
(* A straight-line run of reader calls.  An item is one call:              *)
(*   [k |-> "u", n |-> bits, vals |-> values drawn, label |-> name]        *)
(*   [k |-> "ue" or "se", n |-> 0, vals |-> ..., label |-> ...]            *)
(* The outcome value is the sequence of the values read (a flag as 0 / 1). *)

U(n, vals, label) == [k |-> "u", n |-> n, vals |-> vals, label |-> label]
B(vals, label) == [k |-> "u", n |-> 1, vals |-> vals, label |-> label]
UE(vals, label) == [k |-> "ue", n |-> 0, vals |-> vals, label |-> label]
SE(vals, label) == [k |-> "se", n |-> 0, vals |-> vals, label |-> label]

ReadItem(c, it) ==
    IF it.k = "ue" THEN read_ue(c, it.vals, it.label)
    ELSE IF it.k = "se" THEN read_se(c, it.vals, it.label)
    ELSE read_u(c, it.n, it.vals, it.label)

RECURSIVE ReadSeqFrom(_, _, _)
ReadSeqFrom(c, items, acc) ==
    IF items = <<>> THEN {Ok(c, acc)}
    ELSE UNION {IF o.ok THEN ReadSeqFrom(o.ctx, Tail(items), Append(acc, o.val))
                ELSE {o}
                  : o \in ReadItem(c, Head(items))}
ReadSeq(c, items) == ReadSeqFrom(c, items, <<>>)

Bit == {0, 1}
\* values drawn for an Exp-Golomb field whose value nothing later depends on
UeAny == {0, 1}

---------------------------------------------------------------------------
(* src/nal/pps.rs: ParamSetId<MAX> *)

U8Bits == 8
SeqParamSetIdMax == 15
PicParamSetIdMax == 63
VideoParamSetIdMax == 15

\* ParamSetId::<MAX>::from_u32: Ok(Self(id as u8)) or Err(IdTooLarge(id))
ParamSetId_from_u32_exclusive(id, MAX) ==
    IF id >= MAX
    THEN [ok |-> FALSE, id |-> id]
    ELSE [ok |-> TRUE, id |-> id % (2^U8Bits)]
ParamSetId_from_u32(id, MAX) ==
    IF id > MAX
    THEN [ok |-> FALSE, id |-> id]
    ELSE [ok |-> TRUE, id |-> id % (2^U8Bits)]

\* ParamSetId::id
ParamSetId_id(psid) == psid.id

---------------------------------------------------------------------------
(* src/nal/sps.rs: LayerProfile *)

\* The constraint flags of a LayerProfile, in the order of the struct
ConstraintNames ==
    <<"max_14bit", "max_12bit", "max_10bit", "max_8bit", "max_422chroma",
      "max_420chroma", "max_monochrome", "intra", "one_picture_only",
      "lower_bit_rate">>

\* LayerProfile::default() with the six fields read first
LayerProfile_default(space, tier, idc, compat) ==
    [profile_space |-> space, tier_flag |-> tier, profile_idc |-> idc,
     profile_compatibility_flag |-> compat,
     max_14bit |-> FALSE, max_12bit |-> FALSE, max_10bit |-> FALSE,
     max_8bit |-> FALSE, max_422chroma |-> FALSE, max_420chroma |-> FALSE,
     max_monochrome |-> FALSE, intra |-> FALSE, one_picture_only |-> FALSE,
     lower_bit_rate |-> FALSE, inbld_flag |-> FALSE]

\* profile_idc == k || profile_compatibility_flag[k], for some k of ks
IdcOrCompat_idc_only(idc, compat, ks) == idc \in ks
IdcOrCompat(idc, compat, ks) == \E k \in ks : idc = k \/ k \in compat

\* The buffers explored: profile_idc with the set of compatibility flags
\* that are set; the constraint flag bits of a buffer share one value.
IdcDraws == 0..12
LayerProfileDraws ==
    {<<idc, {}>> : idc \in IdcDraws} \cup {<<0, {k}>> : k \in 1..11}
    \cup {<<2, {1}>>, <<4, {2}>>, <<1, {1, 2}>>}

\* The first 44 bits: space, tier, idc, 32 compatibility flags, 4 source flags
LayerProfile_head(idcs, compat) ==
    <<U(2, {0}, "profile_space"), B(Bit, "tier_flag"), U(5, idcs, "profile_idc")>>
    \o [j \in 1..32 |->
          B({IF (j - 1) \in compat THEN 1 ELSE 0}, "profile_compatibility_flag[j]")]
    \o <<B({1}, "progressive_source_flag"), B({0}, "interlaced_source_flag"),
         B({1}, "non_packed_constraint_flag"), B({1}, "frame_only_constraint_flag")>>

\* The constraint block chosen by profile_idc and the compatibility flags
LayerProfile_block_unpadded(idc, compat, f) ==
    IF IdcOrCompat(idc, compat, {2})
    THEN <<U(7, {0}, "reserved_zero_7bits"),
           B(f, "one_picture_only_constraint_flag")>>
    ELSE <<U(32, {0}, "reserved_zero_43bits"), U(11, {0}, "reserved_zero_43bits")>>
LayerProfile_block(idc, compat, f) ==
    IF IdcOrCompat(idc, compat, 4..11)
    THEN <<B(f, "max_12bit_constraint_flag"), B(f, "max_10bit_constraint_flag"),
           B(f, "max_8bit_constraint_flag"), B(f, "max_422chroma_constraint_flag"),
           B(f, "max_420chroma_constraint_flag"),
           B(f, "max_monochrome_constraint_flag"), B(f, "intra_constraint_flag"),
           B(f, "one_picture_only_constraint_flag"),
           B(f, "lower_bit_rate_constraint_flag")>>
         \o (IF IdcOrCompat(idc, compat, {5, 9, 10, 11})
             THEN <<B(f, "max_14bit_constraint_flag"),
                    U(32, {0}, "reserved_zero_33bits"),
                    U(1, {0}, "reserved_zero_33bits")>>
             ELSE <<U(32, {0}, "reserved_zero_34bits"),
                    U(2, {0}, "reserved_zero_34bits")>>)
    ELSE IF IdcOrCompat(idc, compat, {2})
    THEN <<U(7, {0}, "reserved_zero_7bits"),
           B(f, "one_picture_only_constraint_flag"),
           U(32, {0}, "reserved_zero_35bits"), U(3, {0}, "reserved_zero_35bits")>>
    ELSE <<U(32, {0}, "reserved_zero_43bits"), U(11, {0}, "reserved_zero_43bits")>>

\* The fields the constraint block sets, from the values read (v)
LayerProfile_with_block(p, idc, compat, v) ==
    IF IdcOrCompat(idc, compat, 4..11)
    THEN [p EXCEPT !.max_12bit = (v[1] = 1), !.max_10bit = (v[2] = 1),
                   !.max_8bit = (v[3] = 1), !.max_422chroma = (v[4] = 1),
                   !.max_420chroma = (v[5] = 1), !.max_monochrome = (v[6] = 1),
                   !.intra = (v[7] = 1), !.one_picture_only = (v[8] = 1),
                   !.lower_bit_rate = (v[9] = 1),
                   !.max_14bit = IF IdcOrCompat(idc, compat, {5, 9, 10, 11})
                                 THEN v[10] = 1 ELSE FALSE]
    ELSE IF IdcOrCompat(idc, compat, {2})
    THEN [p EXCEPT !.one_picture_only = (v[2] = 1)]
    ELSE p

\* The last bit: inbld_flag or reserved_zero_bit
LayerProfile_has_inbld(idc, compat) ==
    IdcOrCompat(idc, compat, {1, 2, 3, 4, 5, 9, 11})

\* LayerProfile::read on a buffer whose compatibility flags are compat and
\* whose constraint flag bits are drawn from f
LayerProfile_read_drawn(c, idcs, compat, f) ==
    Bind(ReadSeq(c, LayerProfile_head(idcs, compat)), LAMBDA o1 :
      LET idc == o1.val[3]
          cf == {k \in 0..31 : o1.val[4 + k] = 1}
          p0 == LayerProfile_default(o1.val[1], o1.val[2] = 1, idc, cf)
      IN Bind(ReadSeq(o1.ctx, LayerProfile_block(idc, cf, f)), LAMBDA o2 :
           Bind(read_bool(o2.ctx, IF LayerProfile_has_inbld(idc, cf)
                                  THEN "inbld_flag" ELSE "reserved_zero_bit"),
                LAMBDA o3 :
                  LET p1 == LayerProfile_with_block(p0, idc, cf, o2.val) IN
                  {Ok(o3.ctx,
                      IF LayerProfile_has_inbld(idc, cf)
                      THEN [p1 EXCEPT !.inbld_flag = o3.val] ELSE p1)})))

\* A reader whose buffer is known reads the bits that are there whatever the
\* draws are: one draw stands for all of them
DrawsOn(c, draws) == IF c.known THEN {CHOOSE d \in draws : TRUE} ELSE draws

\* LayerProfile::read
LayerProfile_read(c) ==
    UNION {LayerProfile_read_drawn(c, {d[1]}, d[2], {f})
             : d \in DrawsOn(c, LayerProfileDraws), f \in DrawsOn(c, Bit)}

\* LayerProfile::tier
Tier_from_tier_flag(flag) == IF flag THEN "High" ELSE "Main"
LayerProfile_tier(p) == Tier_from_tier_flag(p.tier_flag)

\* flag as u8
AsU8(b) == IF b THEN 1 ELSE 0

\* The tuples matched by LayerProfile::profile
Tuple9(p) ==
    <<AsU8(p.max_12bit), AsU8(p.max_10bit), AsU8(p.max_8bit),
      AsU8(p.max_422chroma), AsU8(p.max_420chroma), AsU8(p.max_monochrome),
      AsU8(p.intra), AsU8(p.one_picture_only), AsU8(p.lower_bit_rate)>>
Tuple10(p) == <<AsU8(p.max_14bit)>> \o Tuple9(p)

\* A match arm: a pattern (2 stands for _) and the variant it yields
Arm(pat, variant) == [pat |-> pat, variant |-> variant]
Matches(t, pat) == \A i \in 1..Len(pat) : pat[i] = 2 \/ pat[i] = t[i]

\* match t { arms..., _ => Unknown(idc) }: the first arm that matches
RECURSIVE MatchArms(_, _, _)
MatchArms(t, arms, idc) ==
    IF arms = <<>> THEN [variant |-> "Unknown", idc |-> idc]
    ELSE IF Matches(t, Head(arms).pat)
         THEN [variant |-> Head(arms).variant, idc |-> 0]
         ELSE MatchArms(t, Tail(arms), idc)

Named(variant) == [variant |-> variant, idc |-> 0]
Unknown(idc) == [variant |-> "Unknown", idc |-> idc]

Arms4 ==
    <<Arm(<<1, 1, 1, 1, 1, 1, 0, 0, 1>>, "Monochrome"),
      Arm(<<1, 1, 0, 1, 1, 1, 0, 0, 1>>, "Monochrome10"),
      Arm(<<1, 0, 0, 1, 1, 1, 0, 0, 1>>, "Monochrome12"),
      Arm(<<0, 0, 0, 1, 1, 1, 0, 0, 1>>, "Monochrome16"),
      Arm(<<1, 0, 0, 1, 1, 0, 0, 0, 1>>, "Main12"),
      Arm(<<1, 1, 0, 1, 0, 0, 0, 0, 1>>, "Main422_10"),
      Arm(<<1, 0, 0, 1, 0, 0, 0, 0, 1>>, "Main422_12"),
      Arm(<<1, 1, 1, 0, 0, 0, 0, 0, 1>>, "Main444"),
      Arm(<<1, 1, 0, 0, 0, 0, 0, 0, 1>>, "Main444_10"),
      Arm(<<1, 0, 0, 0, 0, 0, 0, 0, 1>>, "Main444_12"),
      Arm(<<1, 1, 1, 1, 1, 0, 1, 0, 2>>, "MainIntra"),
      Arm(<<1, 1, 0, 1, 1, 0, 1, 0, 2>>, "Main10Intra"),
      Arm(<<1, 0, 0, 1, 1, 0, 1, 0, 2>>, "Main12Intra"),
      Arm(<<1, 1, 0, 1, 0, 0, 1, 0, 2>>, "Main422_10Intra"),
      Arm(<<1, 0, 0, 1, 0, 0, 1, 0, 2>>, "Main422_12Intra"),
      Arm(<<1, 1, 1, 0, 0, 0, 1, 0, 2>>, "Main444Intra"),
      Arm(<<1, 1, 0, 0, 0, 0, 1, 0, 2>>, "Main444_10Intra"),
      Arm(<<1, 0, 0, 0, 0, 0, 1, 0, 2>>, "Main444_12Intra"),
      Arm(<<0, 0, 0, 0, 0, 0, 1, 0, 2>>, "Main444_16Intra"),
      Arm(<<1, 1, 1, 0, 0, 0, 1, 1, 2>>, "Main444StillPicture"),
      Arm(<<0, 0, 0, 0, 0, 0, 1, 1, 2>>, "Main444_16StillPicture")>>
Arms5 ==
    <<Arm(<<1, 1, 1, 1, 0, 0, 0, 0, 0, 1>>, "HighThroughput444"),
      Arm(<<1, 1, 1, 0, 0, 0, 0, 0, 0, 1>>, "HighThroughput444_10"),
      Arm(<<1, 0, 0, 0, 0, 0, 0, 0, 0, 1>>, "HighThroughput444_14"),
      Arm(<<0, 0, 0, 0, 0, 0, 0, 1, 0, 2>>, "HighThroughput444_16Intra")>>
Arms6 == <<Arm(<<1, 1, 1, 1, 1, 0, 0, 0, 1>>, "MultiviewMain")>>
Arms7 ==
    <<Arm(<<1, 1, 1, 1, 1, 0, 0, 0, 1>>, "ScalableMain"),
      Arm(<<1, 1, 0, 1, 1, 0, 0, 0, 1>>, "ScalableMain10")>>
Arms8 == <<Arm(<<1, 1, 1, 1, 1, 0, 0, 0, 1>>, "ThreeDeeMain")>>
Arms9 ==
    <<Arm(<<1, 1, 1, 1, 1, 1, 0, 0, 0, 1>>, "ScreenExtendedMain"),
      Arm(<<1, 1, 1, 0, 1, 1, 0, 0, 0, 1>>, "ScreenExtendedMain10"),
      Arm(<<1, 1, 1, 1, 0, 0, 0, 0, 0, 1>>, "ScreenExtendedMain444"),
      Arm(<<1, 1, 1, 0, 0, 0, 0, 0, 0, 1>>, "ScreenExtendedMain444_10")>>
Arms10 ==
    <<Arm(<<1, 1, 1, 1, 1, 1, 1, 0, 0, 1>>, "ScalableMonochrome"),
      Arm(<<1, 1, 0, 0, 1, 1, 1, 0, 0, 1>>, "ScalableMonochrome12"),
      Arm(<<0, 0, 0, 0, 1, 1, 1, 0, 0, 1>>, "ScalableMonochrome16"),
      Arm(<<1, 1, 1, 1, 0, 0, 0, 0, 0, 1>>, "ScalableMain444")>>
Arms11 ==
    <<Arm(<<1, 1, 1, 1, 0, 0, 0, 0, 0, 1>>, "ScreenExtendedHighThroughput444"),
      Arm(<<1, 1, 1, 0, 0, 0, 0, 0, 0, 1>>, "ScreenExtendedHighThroughput444_10"),
      Arm(<<1, 0, 0, 0, 0, 0, 0, 0, 0, 1>>, "ScreenExtendedHighThroughput444_14")>>

\* self.profile_idc == k || self.profile_compatibility_flag[k]
Is_profile_idc_first(p, k) ==
    IF p.profile_idc \in 1..11 THEN p.profile_idc = k
    ELSE k \in p.profile_compatibility_flag
Is(p, k) == p.profile_idc = k \/ k \in p.profile_compatibility_flag

\* LayerProfile::profile
LayerProfile_profile_idc_only(p) ==
    LET q == [p EXCEPT !.profile_compatibility_flag = {}] IN
    IF Is(q, 1) THEN Named("Main")
    ELSE IF Is(q, 2)
         THEN (IF q.one_picture_only THEN Named("Main10StillPicture")
               ELSE Named("Main10"))
    ELSE IF Is(q, 3) THEN Named("MainStillPicture")
    ELSE IF Is(q, 4) THEN MatchArms(Tuple9(q), Arms4, q.profile_idc)
    ELSE IF Is(q, 5) THEN MatchArms(Tuple10(q), Arms5, q.profile_idc)
    ELSE IF Is(q, 6) THEN MatchArms(Tuple9(q), Arms6, q.profile_idc)
    ELSE IF Is(q, 7) THEN MatchArms(Tuple9(q), Arms7, q.profile_idc)
    ELSE IF Is(q, 8) THEN MatchArms(Tuple9(q), Arms8, q.profile_idc)
    ELSE IF Is(q, 9) THEN MatchArms(Tuple10(q), Arms9, q.profile_idc)
    ELSE IF Is(q, 10) THEN MatchArms(Tuple10(q), Arms10, q.profile_idc)
    ELSE IF Is(q, 11) THEN MatchArms(Tuple10(q), Arms11, q.profile_idc)
    ELSE Unknown(q.profile_idc)
LayerProfile_profile(p) ==
    IF Is(p, 1) THEN Named("Main")
    ELSE IF Is(p, 2)
         THEN (IF p.one_picture_only THEN Named("Main10StillPicture")
               ELSE Named("Main10"))
    ELSE IF Is(p, 3) THEN Named("MainStillPicture")
    ELSE IF Is(p, 4) THEN MatchArms(Tuple9(p), Arms4, p.profile_idc)
    ELSE IF Is(p, 5) THEN MatchArms(Tuple10(p), Arms5, p.profile_idc)
    ELSE IF Is(p, 6) THEN MatchArms(Tuple9(p), Arms6, p.profile_idc)
    ELSE IF Is(p, 7) THEN MatchArms(Tuple9(p), Arms7, p.profile_idc)
    ELSE IF Is(p, 8) THEN MatchArms(Tuple9(p), Arms8, p.profile_idc)
    ELSE IF Is(p, 9) THEN MatchArms(Tuple10(p), Arms9, p.profile_idc)
    ELSE IF Is(p, 10) THEN MatchArms(Tuple10(p), Arms10, p.profile_idc)
    ELSE IF Is(p, 11) THEN MatchArms(Tuple10(p), Arms11, p.profile_idc)
    ELSE Unknown(p.profile_idc)

---------------------------------------------------------------------------
(* src/nal/sps.rs: profile_tier_level, sub-layer ordering info *)

None == [some |-> FALSE]
Some(v) == [some |-> TRUE, v |-> v]

\* SubLayerProfileLevel::read
SubLayerProfileLevel_read(c, profile_present, level_present) ==
    Bind(IF profile_present THEN MapVal(LayerProfile_read(c), Some)
         ELSE {Ok(c, None)}, LAMBDA o1 :
      Bind(IF level_present
           THEN MapVal(read_u(o1.ctx, 8, {0, 93}, "sub_layer_level_idc[i]"), Some)
           ELSE {Ok(o1.ctx, None)}, LAMBDA o2 :
        {Ok(o2.ctx, [profile |-> o1.val, level_idc |-> o2.val])}))

MaxSubLayersMinus1Limit == 7

\* SeqParameterSet::validate_max_num_sub_layers_minus1
validate_max_num_sub_layers_minus1_ge(c, n) ==
    IF n >= MaxSubLayersMinus1Limit
    THEN {Err(c, FieldValueTooLarge("max_num_sub_layers_minus1", n))}
    ELSE {Ok(c, TRUE)}
validate_max_num_sub_layers_minus1(c, n) ==
    IF n > MaxSubLayersMinus1Limit
    THEN {Err(c, FieldValueTooLarge("max_num_sub_layers_minus1", n))}
    ELSE {Ok(c, TRUE)}

\* LayerInfo::read_layer
LayerInfo_read_layer(c) ==
    MapVal(ReadSeq(c, <<UE(UeAny, "sps_max_dec_pic_buffering_minus1"),
                        UE({0}, "sps_max_num_reorder_pics"),
                        UE({0}, "sps_max_latency_increase_plus1")>>),
           LAMBDA v : [sps_max_dec_pic_buffering_minus1 |-> v[1],
                       sps_max_num_reorder_pics |-> v[2],
                       sps_max_latency_increase_plus1 |-> v[3]])

---------------------------------------------------------------------------
(* src/nal/sps.rs: chroma info, windows, scaling list, PCM *)

\* ChromaFormat::from_chroma_format_idc
ChromaFormat_from_chroma_format_idc(idc) ==
    CASE idc = 0 -> [format |-> "Monochrome", idc |-> 0]
      [] idc = 1 -> [format |-> "YUV420", idc |-> 0]
      [] idc = 2 -> [format |-> "YUV422", idc |-> 0]
      [] idc = 3 -> [format |-> "YUV444", idc |-> 0]
      [] OTHER -> [format |-> "Invalid", idc |-> idc]

\* ChromaInfo::read
ChromaInfo_read(c) ==
    Bind(read_ue(c, 0..4, "chroma_format_idc"), LAMBDA o1 :
      Bind(IF o1.val = 3 THEN read_bool(o1.ctx, "separate_colour_plane_flag")
           ELSE {Ok(o1.ctx, FALSE)}, LAMBDA o2 :
        {Ok(o2.ctx, [chroma_format |-> ChromaFormat_from_chroma_format_idc(o1.val),
                     separate_colour_plane_flag |-> o2.val])}))

\* Window::read
Window_read_flag_ignored(c) ==
    Bind(read_bool(c, "window_flag"), LAMBDA o1 :
      MapVal(ReadSeq(o1.ctx, <<UE(UeAny, "win_left_offset"),
                               UE({0}, "win_right_offset"),
                               UE({0}, "win_top_offset"),
                               UE(UeAny, "win_bottom_offset")>>),
             LAMBDA v : IF o1.val THEN Some(v) ELSE None))
Window_read(c) ==
    Bind(read_bool(c, "window_flag"), LAMBDA o1 :
      IF o1.val
      THEN MapVal(ReadSeq(o1.ctx, <<UE(UeAny, "win_left_offset"),
                                    UE({0}, "win_right_offset"),
                                    UE({0}, "win_top_offset"),
                                    UE(UeAny, "win_bottom_offset")>>),
                  LAMBDA v : Some([win_left_offset |-> v[1],
                                   win_right_offset |-> v[2],
                                   win_top_offset |-> v[3],
                                   win_bottom_offset |-> v[4]]))
      ELSE {Ok(o1.ctx, None)})

\* i32 arithmetic: a debug build panics on overflow, a release build wraps
WrapI32(x) == ((x - I32Min) % (2^WordBits)) + I32Min
InI32(x) == I32Min <= x /\ x <= I32Max
ArithI32_any_build(c, x) ==
    IF InI32(x) THEN {Ok(c, x)}
    ELSE {Ok(c, WrapI32(x)), Err(c, Panic("attempt to add with overflow"))}
ArithI32(c, x) ==
    IF InI32(x) THEN {Ok(c, x)}
    ELSE {Ok(c, WrapI32(x)) : b \in {c.build} \ {"debug"}}
         \cup {Err(c, Panic("attempt to add with overflow"))
                 : b \in {c.build} \ {"release"}}

\* Rust's %: the remainder has the sign of the dividend
Rem(x, m) == IF x >= 0 THEN x % m ELSE -((-x) % m)

\* min(64, 1 << (4 + (size_id << 1)))
CoefNum(size_id) == IF 2^(4 + 2 * size_id) < 64 THEN 2^(4 + 2 * size_id) ELSE 64

\* The coefficient loop of one matrix: coef_num delta coefficients, one
\* after the other (the run is split in halves to keep the nesting shallow)
RECURSIVE ScalingList_coefs(_, _, _, _)
ScalingList_coefs(c, left, next_coef, deltas) ==
    IF left = 0 THEN {Ok(c, next_coef)}
    ELSE IF left = 1
    THEN Bind(read_se(c, deltas, "scaling_list_delta_coef"), LAMBDA o1 :
           Bind(ArithI32(o1.ctx, next_coef + o1.val), LAMBDA o2 :
             Bind(ArithI32(o2.ctx, o2.val + 256), LAMBDA o3 :
               {Ok(o3.ctx, Rem(o3.val, 256))})))
    ELSE Bind(ScalingList_coefs(c, left \div 2, next_coef, deltas), LAMBDA o1 :
           ScalingList_coefs(o1.ctx, left - (left \div 2), o1.val, deltas))

\* One (size_id, matrix_id) iteration of ScalingList::read_scaling_list; the
\* buffers explored hold the same delta in every coefficient of a matrix.
ScalingList_read_matrix(c, size_id) ==
    Bind(read_bool(c, "scaling_list_pred_mode_flag"), LAMBDA o1 :
      IF ~o1.val
      THEN read_ue(o1.ctx, UeAny, "scaling_list_pred_matrix_id_delta")
      ELSE Bind(IF size_id > 1
                THEN Bind(read_se(o1.ctx, {0, U32Max - 1},
                                  "scaling_list_dc_coef_minus8"),
                          LAMBDA o2 : ArithI32(o2.ctx, o2.val + 8))
                ELSE {Ok(o1.ctx, 8)}, LAMBDA o3 :
             UNION {ScalingList_coefs(o3.ctx, CoefNum(size_id), o3.val, {d})
                      : d \in {0, 1}}))

\* (0..6).step_by(if size_id == 3 { 3 } else { 1 })
MatrixStep_always_one(size_id) == 1
MatrixStep(size_id) == IF size_id = 3 THEN 3 ELSE 1

\* Pcm::read
Pcm_read_best_effort(c) ==
    {IF o.ok THEN o ELSE [ok |-> TRUE, ctx |-> o.ctx, val |-> None]
       : o \in Bind(read_bool(c, "pcm_enabled_flag"), LAMBDA o1 :
                IF o1.val
                THEN MapVal(ReadSeq(o1.ctx,
                              <<U(4, {0}, "pcm_sample_bit_depth_luma_minus1"),
                                B(Bit, "pcm_loop_filter_disabled")>>),
                            LAMBDA v : Some([pcm_loop_filter_disabled |-> v[2] = 1]))
                ELSE {Ok(o1.ctx, None)})}
Pcm_read(c) ==
    Bind(read_bool(c, "pcm_enabled_flag"), LAMBDA o1 :
      IF o1.val
      THEN MapVal(ReadSeq(o1.ctx,
                    <<U(4, {0}, "pcm_sample_bit_depth_luma_minus1"),
                      U(4, {0}, "pcm_sample_bit_depth_chroma_minus1"),
                      UE(UeAny, "log2_min_pcm_luma_coding_block_size_minus3"),
                      UE({0}, "log2_diff_max_min_pcm_luma_coding_block_size"),
                      B(Bit, "pcm_loop_filter_disabled")>>),
                  LAMBDA v : Some([pcm_loop_filter_disabled |-> v[5] = 1]))
      ELSE {Ok(o1.ctx, None)})

---------------------------------------------------------------------------
(* src/nal/sps.rs: ShortTermRefPicSet *)

ShortTermRef(delta_poc_minus1, used) ==
    [delta_poc_minus1 |-> delta_poc_minus1, used_by_curr_pic_flag |-> used]
ShortTermRefPicSet(s0, s1) == [negative_pics_s0 |-> s0, positive_pics_s1 |-> s1]

num_negative_pics(set) == Len(set.negative_pics_s0)
num_positive_pics(set) == Len(set.positive_pics_s1)
num_delta_pocs(set) == num_negative_pics(set) + num_positive_pics(set)

\* x as i32 of a u32
AsI32(x) == IF x > I32Max THEN x - 2^WordBits ELSE x

\* u32 subtraction: a debug build panics on underflow, a release build wraps
SubU32(c, x, y) ==
    IF x >= y THEN {Ok(c, x - y)}
    ELSE {Ok(c, x - y + 2^WordBits) : b \in {c.build} \ {"debug"}}
         \cup {Err(c, Panic("attempt to subtract with overflow"))
                 : b \in {c.build} \ {"release"}}

\* The buffers explored while reading one set (d): the counts, deltas and
\* flags that the bits may spell
RpsDrawsNarrow ==
    [negs |-> {0, 1}, poss |-> {0}, delta0 |-> {0}, delta1 |-> {0},
     used |-> {1}, pred_used |-> Bit, use_delta |-> {1},
     delta_idx |-> {0}, abs |-> {0, I32Max + 1}]

\* The buffers explored while ShortTermRefPicSet::read_with_count is run on
\* its own: the first two sets with lists of up to two entries and with
\* shifts that keep none, one or both entries of a list; later sets as above
RpsDrawsWide ==
    [negs |-> 0..2, poss |-> 0..2, delta0 |-> {0, 1}, delta1 |-> {0, 1},
     used |-> {1}, pred_used |-> Bit, use_delta |-> Bit,
     delta_idx |-> {0}, abs |-> {0, 2, I32Max, I32Max + 1}]
RpsDrawsDeep ==
    [RpsDrawsNarrow EXCEPT !.pred_used = {1}, !.abs = {0}]
RpsDrawsFor(e, st_rps_idx) ==
    IF e = "from_bits" THEN RpsDrawsNarrow
    ELSE IF st_rps_idx <= 1 THEN RpsDrawsWide ELSE RpsDrawsDeep

\* What one call of ShortTermRefPicSet::read decoded: the set it returns and
\* the values of its locals
RpsExplicit(set, negs, poss) ==
    [set |-> set, predicted |-> FALSE,
     num_negative_pics |-> negs, num_positive_pics |-> poss,
     delta_idx_read |-> FALSE, delta_idx_minus1 |-> 0, delta_rps_sign |-> 0,
     abs_delta_rps_minus1 |-> 0, ref_rps_idx |-> 0, delta_rps |-> 0,
     used_by_curr_pic |-> <<>>, use_delta |-> <<>>]
RpsPredicted(set, idx_read, idx, sign, abs, ref_rps_idx, delta_rps, flags) ==
    [set |-> set, predicted |-> TRUE,
     num_negative_pics |-> 0, num_positive_pics |-> 0,
     delta_idx_read |-> idx_read, delta_idx_minus1 |-> idx,
     delta_rps_sign |-> sign, abs_delta_rps_minus1 |-> abs,
     ref_rps_idx |-> ref_rps_idx, delta_rps |-> delta_rps,
     used_by_curr_pic |-> flags[1], use_delta |-> flags[2]]

\* for _ in 0..n { delta_poc_sX_minus1, used_by_curr_pic_sX_flag }
RECURSIVE Rps_explicit_list(_, _, _, _, _, _)
Rps_explicit_list(c, left, deltas, useds, which, acc) ==
    IF left = 0 THEN {Ok(c, acc)}
    ELSE Bind(read_ue(c, deltas, IF which = 0 THEN "delta_poc_s0_minus1"
                                 ELSE "delta_poc_s1_minus1"), LAMBDA o1 :
           Bind(read_u(o1.ctx, 1, useds,
                       IF which = 0 THEN "used_by_curr_pic_s0_flag"
                       ELSE "used_by_curr_pic_s1_flag"), LAMBDA o2 :
             Rps_explicit_list(o2.ctx, left - 1, deltas, useds, which,
                               Append(acc, ShortTermRef(AsI32(o1.val), o2.val = 1)))))

\* The branch of ShortTermRefPicSet::read without prediction
Rps_read_explicit_one_count(c, d) ==
    Bind(read_ue(c, d.negs, "num_negative_pics"), LAMBDA o1 :
      Bind(read_ue(o1.ctx, d.poss, "num_positive_pics"), LAMBDA o2 :
        Bind(Rps_explicit_list(o2.ctx, o1.val, d.delta0, d.used, 0, <<>>), LAMBDA o3 :
          Bind(Rps_explicit_list(o3.ctx, o1.val, d.delta1, d.used, 1, <<>>), LAMBDA o4 :
            {Ok(o4.ctx, RpsExplicit(ShortTermRefPicSet(o3.val, o4.val),
                                    o1.val, o2.val))}))))
Rps_read_explicit(c, d) ==
    Bind(read_ue(c, d.negs, "num_negative_pics"), LAMBDA o1 :
      Bind(read_ue(o1.ctx, d.poss, "num_positive_pics"), LAMBDA o2 :
        Bind(Rps_explicit_list(o2.ctx, o1.val, d.delta0, d.used, 0, <<>>), LAMBDA o3 :
          Bind(Rps_explicit_list(o3.ctx, o2.val, d.delta1, d.used, 1, <<>>), LAMBDA o4 :
            {Ok(o4.ctx, RpsExplicit(ShortTermRefPicSet(o3.val, o4.val),
                                    o1.val, o2.val))}))))

\* let use_delta_flag = if used_by_curr_pic_flag { r.read_bool(..)? } else
\* { true }
Rps_use_delta_flag_always_read(c, used_by_curr_pic_flag, d) ==
    read_u(c, 1, d.use_delta, "use_delta_flag")
Rps_use_delta_flag(c, used_by_curr_pic_flag, d) ==
    IF used_by_curr_pic_flag = 1 THEN read_u(c, 1, d.use_delta, "use_delta_flag")
    ELSE {Ok(c, 1)}

\* for _j in 0..=ref_rps.num_delta_pocs(): used_by_curr_pic_flag[j] and
\* use_delta_flag[j]; the value is <<used_by_curr_pic, use_delta>>
RECURSIVE Rps_pred_flags(_, _, _, _, _)
Rps_pred_flags(c, left, d, used, use_delta) ==
    IF left = 0 THEN {Ok(c, <<used, use_delta>>)}
    ELSE Bind(read_u(c, 1, d.pred_used, "used_by_curr_pic_flag"), LAMBDA o1 :
           Bind(Rps_use_delta_flag(o1.ctx, o1.val, d), LAMBDA o2 :
             Rps_pred_flags(o2.ctx, left - 1, d,
                            Append(used, o1.val = 1), Append(use_delta, o2.val = 1))))

\* One pass over a list of the reference set: the entries list[j], j in
\* order js, shifted by delta_rps; kept when the shifted delta has the sign
\* wanted (sgn = -1 or 1) and use_delta[off + j] is set
RECURSIVE Rps_pass(_, _, _, _, _, _, _, _, _)
Rps_pass(c, list, js, off, delta_rps, sgn, used, use_delta, acc) ==
    IF js = <<>> THEN {Ok(c, acc)}
    ELSE LET j == Head(js) IN
         Bind(ArithI32(c, list[j].delta_poc_minus1 + 1), LAMBDA o1 :
           Bind(ArithI32(o1.ctx, o1.val + delta_rps), LAMBDA o2 :
             IF o2.val * sgn > 0 /\ use_delta[off + j]
             THEN Bind(ArithI32(o2.ctx, o2.val - 1), LAMBDA o3 :
                    Rps_pass(o3.ctx, list, Tail(js), off, delta_rps, sgn, used,
                             use_delta,
                             Append(acc, ShortTermRef(o3.val, used[off + j]))))
             ELSE Rps_pass(o2.ctx, list, Tail(js), off, delta_rps, sgn, used,
                           use_delta, acc)))

Ascending(n) == [j \in 1..n |-> j]
Descending_as_ascending(n) == [j \in 1..n |-> j]
Descending(n) == [j \in 1..n |-> n + 1 - j]

\* The boundary term: delta_rps itself, under use_delta[num_delta_pocs]
Rps_boundary(c, ref, delta_rps, sgn, used, use_delta, acc) ==
    IF delta_rps * sgn > 0 /\ use_delta[num_delta_pocs(ref) + 1]
    THEN Bind(ArithI32(c, delta_rps - 1), LAMBDA o1 :
           {Ok(o1.ctx, Append(acc, ShortTermRef(o1.val,
                                                used[num_delta_pocs(ref) + 1])))})
    ELSE {Ok(c, acc)}

\* The new S0: S1 of the reference descending, the boundary term, S0 ascending
Rps_derive_s0(c, ref, delta_rps, used, use_delta) ==
    Bind(Rps_pass(c, ref.positive_pics_s1, Descending(num_positive_pics(ref)),
                  num_negative_pics(ref), delta_rps, -1, used, use_delta, <<>>),
         LAMBDA o1 :
      Bind(Rps_boundary(o1.ctx, ref, delta_rps, -1, used, use_delta, o1.val),
           LAMBDA o2 :
        Rps_pass(o2.ctx, ref.negative_pics_s0, Ascending(num_negative_pics(ref)),
                 0, delta_rps, -1, used, use_delta, o2.val)))

\* The new S1: S0 of the reference descending, the boundary term, S1 ascending
Rps_derive_s1(c, ref, delta_rps, used, use_delta) ==
    Bind(Rps_pass(c, ref.negative_pics_s0, Descending(num_negative_pics(ref)),
                  0, delta_rps, 1, used, use_delta, <<>>),
         LAMBDA o1 :
      Bind(Rps_boundary(o1.ctx, ref, delta_rps, 1, used, use_delta, o1.val),
           LAMBDA o2 :
        Rps_pass(o2.ctx, ref.positive_pics_s1, Ascending(num_positive_pics(ref)),
                 num_negative_pics(ref), delta_rps, 1, used, use_delta, o2.val)))

\* i32::try_from(abs_delta_rps_minus1).expect("abs_delta_rps_minus1 out of range")
Rps_abs_delta_rps_minus1(c, v) ==
    IF v > I32Max THEN {Err(c, Panic("abs_delta_rps_minus1 out of range"))}
    ELSE {Ok(c, v)}

\* prev_sets.get(usize::try_from(ref_rps_idx).unwrap()).unwrap()
Rps_ref_rps(c, prev_sets, ref_rps_idx) ==
    IF ref_rps_idx + 1 > Len(prev_sets)
    THEN {Err(c, Panic("unwrap on None"))}
    ELSE {Ok(c, prev_sets[ref_rps_idx + 1])}

\* The branch of ShortTermRefPicSet::read with prediction
Rps_read_predicted(c, st_rps_idx, num_short_term_ref_pic_sets, prev_sets, d) ==
    Bind(IF st_rps_idx = num_short_term_ref_pic_sets
         THEN read_ue(c, d.delta_idx, "delta_idx_minus1")
         ELSE {Ok(c, 0)}, LAMBDA o1 :
    Bind(read_u(o1.ctx, 1, Bit, "delta_rps_sign"), LAMBDA o2 :
    Bind(read_ue(o2.ctx, d.abs, "abs_delta_rps_minus1"), LAMBDA o3 :
    Bind(Rps_abs_delta_rps_minus1(o3.ctx, o3.val), LAMBDA o4 :
    Bind(SubU32(o4.ctx, st_rps_idx, o1.val + 1), LAMBDA o5 :
    Bind(ArithI32(o5.ctx, o4.val + 1), LAMBDA o6 :
    Bind(ArithI32(o6.ctx, (1 - 2 * o2.val) * o6.val), LAMBDA o7 :
    Bind(Rps_ref_rps(o7.ctx, prev_sets, o5.val), LAMBDA o8 :
    Bind(Rps_pred_flags(o8.ctx, num_delta_pocs(o8.val) + 1, d, <<>>, <<>>),
         LAMBDA o9 :
    Bind(Rps_derive_s0(o9.ctx, o8.val, o7.val, o9.val[1], o9.val[2]), LAMBDA o10 :
    Bind(Rps_derive_s1(o10.ctx, o8.val, o7.val, o9.val[1], o9.val[2]), LAMBDA o11 :
      {Ok(o11.ctx,
          RpsPredicted(ShortTermRefPicSet(o10.val, o11.val),
                       st_rps_idx = num_short_term_ref_pic_sets, o1.val,
                       o2.val, o4.val, o5.val, o7.val, o9.val))})))))))))))

\* ShortTermRefPicSet::read; the value is the set read with the locals
ShortTermRefPicSet_read_as_last(c, st_rps_idx, num_short_term_ref_pic_sets, prev_sets, d) ==
    Bind(IF st_rps_idx = 0 THEN {Ok(c, FALSE)}
         ELSE read_bool(c, "inter_ref_pic_set_prediction_flag"), LAMBDA o1 :
      IF o1.val
      THEN Rps_read_predicted(o1.ctx, num_short_term_ref_pic_sets,
                              num_short_term_ref_pic_sets, prev_sets, d)
      ELSE Rps_read_explicit(o1.ctx, d))
ShortTermRefPicSet_read(c, st_rps_idx, num_short_term_ref_pic_sets, prev_sets, d) ==
    Bind(IF st_rps_idx = 0 THEN {Ok(c, FALSE)}
         ELSE read_bool(c, "inter_ref_pic_set_prediction_flag"), LAMBDA o1 :
      IF o1.val
      THEN Rps_read_predicted(o1.ctx, st_rps_idx, num_short_term_ref_pic_sets,
                              prev_sets, d)
      ELSE Rps_read_explicit(o1.ctx, d))

---------------------------------------------------------------------------
(* src/nal/sps.rs: long-term reference pictures *)

\* LongTermRefPicSps::read_one
LongTermRefPicSps_read_one(c) ==
    Bind(read_ue(c, UeAny, "lt_ref_pic_pic_lsb_sps"), LAMBDA o1 :
      Bind(read_ue(o1.ctx, UeAny, "used_by_curr_pic_lt_sps_flag"), LAMBDA o2 :
        {Ok(o2.ctx, "LongTermRefPicSps")}))

---------------------------------------------------------------------------
(* src/nal/sps.rs: VUI parameters *)

AspectRatioExtended == 255

\* AspectRatioInfo::read
AspectRatioInfo_read(c) ==
    Bind(read_bool(c, "aspect_ratio_info_present_flag"), LAMBDA o1 :
      IF o1.val
      THEN Bind(read_u(o1.ctx, 8, {0, 1, 16, 17, AspectRatioExtended},
                       "aspect_ratio_idc"), LAMBDA o2 :
             IF o2.val = AspectRatioExtended
             THEN MapVal(ReadSeq(o2.ctx, <<U(16, {64}, "sar_width"),
                                           U(16, {45}, "sar_height")>>),
                         LAMBDA v : Some([kind |-> "Extended", a |-> v[1], b |-> v[2]]))
             ELSE {Ok(o2.ctx,
                      Some([kind |-> IF o2.val = 0 THEN "Unspecified"
                                     ELSE IF o2.val <= 16 THEN "Ratio"
                                     ELSE "Reserved",
                            a |-> o2.val, b |-> 0]))})
      ELSE {Ok(o1.ctx, None)})

\* OverscanAppropriate::read
OverscanAppropriate_read(c) ==
    Bind(read_bool(c, "overscan_info_present_flag"), LAMBDA o1 :
      IF o1.val
      THEN MapVal(read_bool(o1.ctx, "overscan_appropriate_flag"),
                  LAMBDA b : IF b THEN "Appropriate" ELSE "Inappropriate")
      ELSE {Ok(o1.ctx, "Unspecified")})

\* VideoFormat::from
VideoFormat_from(c, video_format) ==
    CASE video_format = 0 -> {Ok(c, "Component")}
      [] video_format = 1 -> {Ok(c, "PAL")}
      [] video_format = 2 -> {Ok(c, "NTSC")}
      [] video_format = 3 -> {Ok(c, "SECAM")}
      [] video_format = 4 -> {Ok(c, "MAC")}
      [] video_format = 5 -> {Ok(c, "Unspecified")}
      [] video_format \in {6, 7} -> {Ok(c, "Reserved")}
      [] OTHER -> {Err(c, Panic("unsupported video_format value"))}

\* ColourDescription::read
ColourDescription_read(c) ==
    Bind(read_bool(c, "colour_description_present_flag"), LAMBDA o1 :
      IF o1.val
      THEN MapVal(ReadSeq(o1.ctx, <<U(8, {1}, "colour_primaries"),
                                    U(8, {1}, "transfer_characteristics"),
                                    U(8, {1}, "matrix_coeffs")>>),
                  LAMBDA v : Some(v))
      ELSE {Ok(o1.ctx, None)})

\* VideoSignalType::read
VideoSignalType_read(c) ==
    Bind(read_bool(c, "video_signal_type_present_flag"), LAMBDA o1 :
      IF o1.val
      THEN Bind(read_u(o1.ctx, 3, 0..7, "video_format"), LAMBDA o2 :
           Bind(VideoFormat_from(o2.ctx, o2.val), LAMBDA o3 :
           Bind(read_bool(o3.ctx, "video_full_range_flag"), LAMBDA o4 :
           Bind(ColourDescription_read(o4.ctx), LAMBDA o5 :
             {Ok(o5.ctx, Some([video_format |-> o3.val,
                               video_full_range_flag |-> o4.val,
                               colour_description |-> o5.val]))}))))
      ELSE {Ok(o1.ctx, None)})

\* ChromaLocInfo::read
ChromaLocInfo_read(c) ==
    Bind(read_bool(c, "chroma_loc_info_present_flag"), LAMBDA o1 :
      IF o1.val
      THEN MapVal(ReadSeq(o1.ctx,
                    <<UE(UeAny, "chroma_sample_loc_type_top_field"),
                      UE({0}, "chroma_sample_loc_type_bottom_field")>>),
                  LAMBDA v : Some(v))
      ELSE {Ok(o1.ctx, None)})

\* neutral_chroma_indication_flag, field_seq_flag, frame_field_info_present_flag
Vui_flags(c) ==
    ReadSeq(c, <<B(Bit, "neutral_chroma_indication_flag"), B(Bit, "field_seq_flag"),
                 B(Bit, "frame_field_info_present_flag")>>)

\* TimingInfo::read_num_ticks
TimingInfo_read_num_ticks(c) ==
    Bind(read_bool(c, "vui_poc_proportional_timing_flag"), LAMBDA o1 :
      IF o1.val
      THEN MapVal(read_ue(o1.ctx, UeAny, "vui_num_ticks_poc_diff_one_minus1"), Some)
      ELSE {Ok(o1.ctx, None)})

\* num_units_in_tick, time_scale, num_ticks_poc_diff_one_minus1 of TimingInfo::read
TimingInfo_values(c) ==
    Bind(read_u(c, 32, {0, 1}, "num_units_in_tick"), LAMBDA o1 :
      Bind(read_u(o1.ctx, 32, {25, 50}, "time_scale"), LAMBDA o2 :
        Bind(TimingInfo_read_num_ticks(o2.ctx), LAMBDA o3 :
          {Ok(o3.ctx, [num_units_in_tick |-> o1.val, time_scale |-> o2.val,
                       num_ticks_poc_diff_one_minus1 |-> o3.val])})))

\* SubPicHrdParams::read_partial
SubPicHrdParams_read_partial(c) ==
    ReadSeq(c, <<U(8, {0}, "tick_divisor_minus2"),
                 U(5, {0}, "du_cpb_removal_delay_increment_length_minus1"),
                 B(Bit, "sub_pic_cpb_params_in_pic_timing_sei_flag"),
                 U(5, {0}, "dpb_output_delay_du_length_minus1")>>)

\* HrdParametersCommonInfParameters::read
HrdParametersCommonInfParameters_read(c) ==
    Bind(read_bool(c, "sub_pic_hrd_params_present_flag"), LAMBDA o1 :
    Bind(IF o1.val THEN MapVal(SubPicHrdParams_read_partial(o1.ctx), Some)
         ELSE {Ok(o1.ctx, None)}, LAMBDA o2 :
    Bind(ReadSeq(o2.ctx, <<U(4, {3}, "bit_rate_scale"),
                           U(4, {4}, "cpb_size_scale")>>), LAMBDA o3 :
    Bind(IF o2.val.some THEN read_u(o3.ctx, 4, {0}, "cpb_size_du_scale")
         ELSE {Ok(o3.ctx, 0)}, LAMBDA o4 :
    Bind(ReadSeq(o4.ctx,
           <<U(5, {18}, "initial_cpb_removal_delay_length_minus1"),
             U(5, {19}, "au_cpb_removal_delay_length_minus1"),
             U(5, {25}, "dpb_output_delay_length_minus1")>>), LAMBDA o5 :
      {Ok(o5.ctx, [sub_pic_hrd_params |-> o2.val.some])})))))

\* HrdParametersCommonInf::read
HrdParametersCommonInf_read(c) ==
    Bind(read_bool(c, "nal_hrd_parameters_present"), LAMBDA o1 :
    Bind(read_bool(o1.ctx, "vcl_hrd_parameters_present"), LAMBDA o2 :
    Bind(IF o1.val \/ o2.val
         THEN MapVal(HrdParametersCommonInfParameters_read(o2.ctx), Some)
         ELSE {Ok(o2.ctx, None)}, LAMBDA o3 :
      {Ok(o3.ctx, [nal_hrd_parameters_present_flag |-> o1.val,
                   vcl_hrd_parameters_present_flag |-> o2.val,
                   parameters |-> o3.val])})))

\* SubLayerHrdParameters::read
SubLayerHrdParameters_read(c, sub_pic_hrd_params_present) ==
    Bind(ReadSeq(c, <<UE({0}, "bit_rate_value_minus1"),
                      UE({0}, "cpb_size_value_minus1")>>), LAMBDA o1 :
    Bind(IF sub_pic_hrd_params_present
         THEN MapVal(ReadSeq(o1.ctx, <<UE({0}, "cpb_size_du_value_minus1"),
                                       UE({0}, "bit_rate_du_value_minus1")>>),
                     LAMBDA v : TRUE)
         ELSE {Ok(o1.ctx, FALSE)}, LAMBDA o2 :
    Bind(MapVal(read_u(o2.ctx, 1, {1}, "cbr_flag"), LAMBDA b : b = 1), LAMBDA o3 :
      {Ok(o3.ctx, [bit_rate_value_minus1 |-> o1.val[1],
                   sub_pic_hrd_params |-> o2.val, cbr_flag |-> o3.val])})))

\* (0..=cpb_cnt_minus1).map(|_| SubLayerHrdParameters::read(..)).collect()
RECURSIVE SubLayerHrd_list(_, _, _, _)
SubLayerHrd_list(c, left, sub_pic, acc) ==
    IF left = 0 THEN {Ok(c, acc)}
    ELSE Bind(SubLayerHrdParameters_read(c, sub_pic), LAMBDA o1 :
           SubLayerHrd_list(o1.ctx, left - 1, sub_pic, Append(acc, o1.val)))

SubLayerHrd_optional_list_exclusive(c, present, cpb_cnt_minus1, sub_pic) ==
    IF present
    THEN MapVal(SubLayerHrd_list(c, cpb_cnt_minus1, sub_pic, <<>>), Some)
    ELSE {Ok(c, None)}
SubLayerHrd_optional_list(c, present, cpb_cnt_minus1, sub_pic) ==
    IF present
    THEN MapVal(SubLayerHrd_list(c, cpb_cnt_minus1 + 1, sub_pic, <<>>), Some)
    ELSE {Ok(c, None)}

\* SubLayerHrdParametersContainer::read
SubLayerHrdParametersContainer_read(c, nal, vcl, sub_pic) ==
    Bind(read_bool(c, "fixed_pic_rate_general_flag"), LAMBDA o1 :
    Bind(IF ~o1.val THEN read_bool(o1.ctx, "fixed_pic_rate_within_cvs_flag")
         ELSE {Ok(o1.ctx, TRUE)}, LAMBDA o2 :
    Bind(IF o2.val
         THEN MapVal(read_ue(o2.ctx, UeAny, "elemental_duration_in_tc_minus1"),
                     LAMBDA v : <<v, FALSE>>)
         ELSE MapVal(read_bool(o2.ctx, "low_delay_hrd_flag"),
                     LAMBDA b : <<0, b>>), LAMBDA o3 :
    Bind(IF ~o3.val[2] THEN read_ue(o3.ctx, {0, 1}, "cpb_cnt_minus1")
         ELSE {Ok(o3.ctx, 0)}, LAMBDA o4 :
    Bind(SubLayerHrd_optional_list(o4.ctx, nal, o4.val, sub_pic), LAMBDA o5 :
    Bind(SubLayerHrd_optional_list(o5.ctx, vcl, o4.val, sub_pic), LAMBDA o6 :
      {Ok(o6.ctx, [fixed_pic_rate_general_flag |-> o1.val,
                   fixed_pic_rate_within_cvs_flag |-> o2.val,
                   elemental_duration_in_tc_minus1 |-> o3.val[1],
                   low_delay_hrd_flag |-> o3.val[2],
                   cpb_cnt_minus1 |-> o4.val,
                   nal_hrd_parameters |-> o5.val,
                   vcl_hrd_parameters |-> o6.val])}))))))

\* BitstreamRestrictions::read
BitstreamRestrictions_read(c) ==
    Bind(read_bool(c, "bitstream_restriction_flag"), LAMBDA o1 :
      IF o1.val
      THEN MapVal(ReadSeq(o1.ctx,
                    <<B(Bit, "tiles_fixed_structure_flag"),
                      B({1}, "motion_vectors_over_pic_boundaries_flag"),
                      B({1}, "restricted_ref_pic_lists_flag"),
                      UE(UeAny, "min_spatial_segmentation_idc"),
                      UE({0}, "max_bytes_per_pic_denom"),
                      UE({0}, "max_bits_per_mb_denom"),
                      UE({0}, "log2_max_mv_length_horizontal"),
                      UE({0}, "log2_max_mv_length_vertical")>>),
                  LAMBDA v : Some(v))
      ELSE {Ok(o1.ctx, None)})

---------------------------------------------------------------------------
(* src/nal/sps.rs: SPS extension *)

\* The reads of SpsExtension::read before its checks: None when the present
\* flag is clear, or the four extension flags and sps_extension_4bits
SpsExtension_read_bits(c) ==
    Bind(read_bool(c, "sps_extension_present_flag"), LAMBDA o1 :
      IF o1.val
      THEN MapVal(ReadSeq(o1.ctx, <<B(Bit, "sps_range_extension_flag"),
                                    B(Bit, "sps_multilayer_extension_flag"),
                                    B(Bit, "sps_3d_extension_flag"),
                                    B(Bit, "sps_scc_extension_flag"),
                                    U(4, {0, 1}, "sps_extension_4bits")>>), Some)
      ELSE {Ok(o1.ctx, None)})

\* The checks on the flags read: Ok(0) when the extension is absent, Ok(1)
\* when it is present and no data follow, Ok(2) when sps_extension_4bits
\* asks for the sps_extension_data_flag loop
SpsExtension_check_accepting(c, bits) ==
    IF ~bits.some THEN {Ok(c, 0)}
    ELSE {Ok(c, IF bits.v[5] # 0 THEN 2 ELSE 1)}
SpsExtension_check(c, bits) ==
    IF ~bits.some THEN {Ok(c, 0)}
    ELSE IF bits.v[1] = 1 THEN {Err(c, Unimplemented("sps_range_extension"))}
    ELSE IF bits.v[2] = 1 THEN {Err(c, Unimplemented("sps_multilayer_extension"))}
    ELSE IF bits.v[3] = 1 THEN {Err(c, Unimplemented("sps_3d_extension"))}
    ELSE IF bits.v[4] = 1 THEN {Err(c, Unimplemented("sps_scc_extension"))}
    ELSE {Ok(c, IF bits.v[5] # 0 THEN 2 ELSE 1)}

SpsExtension_read_header(c) ==
    Bind(SpsExtension_read_bits(c), LAMBDA o1 : SpsExtension_check(o1.ctx, o1.val))

\* One turn of while r.has_more_rbsp_data(..)? { r.read_bool(..)?; }:
\* Ok(TRUE) when a data flag was read, Ok(FALSE) when the loop ends
SpsExtension_read_data_peek(c) ==
    Bind(has_more_rbsp_data(c, "sps_extension_data_flag"), LAMBDA o1 :
      IF o1.val THEN {Ok(o1.ctx, TRUE)} ELSE {Ok(o1.ctx, FALSE)})
SpsExtension_read_data(c) ==
    Bind(has_more_rbsp_data(c, "sps_extension_data_flag"), LAMBDA o1 :
      IF o1.val
      THEN MapVal(read_bool(o1.ctx, "sps_extension_data_flag"), LAMBDA b : TRUE)
      ELSE {Ok(o1.ctx, FALSE)})

---------------------------------------------------------------------------
(* The running operation: one step per syntax element or structure *)

\* Buffers explored: at most this many sub-layers carry presence flags
MaxPresentLayers == 1
\* Buffers explored: at most this many short-term reference picture sets
MaxRpsSets == 2
\* Buffers explored: at most this many long-term reference pictures
MaxLongTermRefs == 2

Running == [kind |-> "running", err |-> NoErr, val |-> None]
Returned(v) == [kind |-> "Ok", err |-> NoErr, val |-> Some(v)]
\* Err(e) returned through every ?, or a panic unwinding
Failure(e) ==
    [kind |-> IF e.kind = "panic" THEN "Panic" ELSE "Err", err |-> e, val |-> None]

NoFlags == [j \in 1..7 |-> FALSE]
NoHrd == [nal |-> FALSE, vcl |-> FALSE, sub_pic |-> FALSE]
Fields0 ==
    [vps_id |-> 0, msl |-> 0, profile_present |-> TRUE, sps_id |-> 0,
     i |-> 0, n |-> 0, size_id |-> 0,
     sub_layer_profile_present_flag |-> NoFlags,
     sub_layer_level_present_flag |-> NoFlags,
     sets |-> <<>>, last_rps |-> None, last_slot |-> None, hrd |-> NoHrd,
     scaling_list |-> None, extension |-> None, gated |-> None,
     sub_layer_hrd |-> None,
     general_profile |-> None, general_level_idc |-> 0, chroma_info |-> None,
     pic_width_in_luma_samples |-> 0, pic_height_in_luma_samples |-> 0,
     conformance_window |-> None, vui_parameters |-> None]

\* The fields that the queries of SeqParameterSet read are kept when the
\* reader keeps its values
Keep(f, name, v) == IF ctx.keep THEN [f EXCEPT ![name] = v] ELSE f

\* The operation stands at element here and runs it: outs are the outcomes
\* of the element's code, Then(v) the position and the fields after Ok(v)
Step(here, label, outs, Then(_)) ==
    /\ pc = here
    /\ result.kind = "running"
    /\ log' = Append(log, label)
    /\ \E o \in outs :
         /\ ctx' = o.ctx
         /\ IF o.ok
            THEN /\ pc' = Then(o.val).pc
                 /\ fields' = Then(o.val).fields
                 /\ result' = IF Then(o.val).pc = "done"
                              THEN Returned(Then(o.val).fields) ELSE result
            ELSE /\ pc' = "done"
                 /\ result' = Failure(o.err)
                 /\ fields' = fields
    /\ UNCHANGED <<entry, arg>>

\* The same for a step inside a structure, which starts no new element
Inner(here, outs, Then(_)) ==
    /\ pc = here
    /\ result.kind = "running"
    /\ log' = log
    /\ \E o \in outs :
         /\ ctx' = o.ctx
         /\ IF o.ok
            THEN /\ pc' = Then(o.val).pc
                 /\ fields' = Then(o.val).fields
                 /\ result' = IF Then(o.val).pc = "done"
                              THEN Returned(Then(o.val).fields) ELSE result
            ELSE /\ pc' = "done"
                 /\ result' = Failure(o.err)
                 /\ fields' = fields
    /\ UNCHANGED <<entry, arg>>

Goto(p, f) == [pc |-> p, fields |-> f]

---------------------------------------------------------------------------
(* SeqParameterSet::from_bits: the head *)

\* let sps_video_parameter_set_id = r.read_u8(4, ..)?
SpsVideoParameterSetId ==
    /\ entry = "from_bits"
    /\ Step("sps_video_parameter_set_id", "sps_video_parameter_set_id",
            read_u(ctx, 4, {VideoParamSetIdMax}, "sps_video_parameter_set_id"),
            LAMBDA v : Goto("sps_max_sub_layers_minus1",
                            [fields EXCEPT !.vps_id = v]))

\* Buffers explored: the values of sps_max_sub_layers_minus1
MaxSubLayersDraws == {0, 1, 7}

\* let sps_max_sub_layers_minus1 = r.read_u8(3, ..)?, and then the first
\* field of the struct literal: ParamSetId::from_u32(id).map_err(..)?
MaxSubLayersMinus1_read(c, vps_id) ==
    Bind(read_u(c, 3, MaxSubLayersDraws, "sps_max_sub_layers_minus1"), LAMBDA o1 :
      LET id == ParamSetId_from_u32(vps_id, VideoParamSetIdMax) IN
      IF id.ok THEN {Ok(o1.ctx, <<ParamSetId_id(id), o1.val>>)}
      ELSE {Err(o1.ctx, BadVideoParamSetId(id.id))})

SpsMaxSubLayersMinus1 ==
    Step("sps_max_sub_layers_minus1", "sps_max_sub_layers_minus1",
         MaxSubLayersMinus1_read(ctx, fields.vps_id),
         LAMBDA v : Goto("sps_temporal_id_nesting",
                         [fields EXCEPT !.vps_id = v[1], !.msl = v[2],
                                        !.profile_present = TRUE]))

SpsTemporalIdNesting ==
    Step("sps_temporal_id_nesting", "sps_temporal_id_nesting",
         read_bool(ctx, "sps_temporal_id_nesting_flag"),
         LAMBDA v : Goto("profile_tier_level", fields))

---------------------------------------------------------------------------
(* ProfileTierLevel::read *)

\* general_profile: Some(LayerProfile::read(r)?) when profile_present_flag
GeneralProfile_read_never(c, profile_present_flag) == {Ok(c, None)}
GeneralProfile_read(c, profile_present_flag) ==
    IF profile_present_flag
    THEN MapVal(LayerProfile_read(c), LAMBDA p : Some(IF c.keep THEN p ELSE TRUE))
    ELSE {Ok(c, None)}

PtlGeneralProfile ==
    Step("profile_tier_level", "profile_tier_level",
         GeneralProfile_read(ctx, fields.profile_present),
         LAMBDA v : Goto("ptl.general_level_idc",
                         [fields EXCEPT !.general_profile = v]))

\* general_level_idc, and then the check of max_num_sub_layers_minus1
GeneralLevelIdc_read(c, max_num_sub_layers_minus1) ==
    Bind(read_u(c, 8, {93}, "general_level_idc"), LAMBDA o1 :
      Bind(validate_max_num_sub_layers_minus1(o1.ctx, max_num_sub_layers_minus1),
           LAMBDA o2 : {Ok(o2.ctx, o1.val)}))

PtlGeneralLevelIdc ==
    Inner("ptl.general_level_idc", GeneralLevelIdc_read(ctx, fields.msl),
          LAMBDA v : Goto("ptl.sub_layer_flags",
                          Keep(fields, "general_level_idc", v)))

\* for i in 0..max_num_sub_layers_minus1: the two presence flags of sub-layer
\* i; then 8 - max_num_sub_layers_minus1 reserved_zero_2bits when it is > 0
SubLayerFlags_items_always_padded(n) ==
    [j \in 1..(2 * n) |->
       B(IF (j + 1) \div 2 <= MaxPresentLayers THEN Bit ELSE {0},
         IF j % 2 = 1 THEN "sub_layer_profile_present_flag[i]"
         ELSE "sub_layer_level_present_flag[i]")]
    \o [j \in 1..(8 - n) |-> U(2, {0}, "reserved_zero_2bits[i]")]
SubLayerFlags_items(n) ==
    [j \in 1..(2 * n) |->
       B(IF (j + 1) \div 2 <= MaxPresentLayers THEN Bit ELSE {0},
         IF j % 2 = 1 THEN "sub_layer_profile_present_flag[i]"
         ELSE "sub_layer_level_present_flag[i]")]
    \o (IF n > 0 THEN [j \in 1..(8 - n) |-> U(2, {0}, "reserved_zero_2bits[i]")]
        ELSE <<>>)

SubLayerFlags_read(c, n) ==
    MapVal(ReadSeq(c, SubLayerFlags_items(n)),
           LAMBDA v : [profile |-> [i \in 1..7 |-> i <= n /\ v[2 * i - 1] = 1],
                       level |-> [i \in 1..7 |-> i <= n /\ v[2 * i] = 1]])

PtlSubLayerFlags ==
    Inner("ptl.sub_layer_flags", SubLayerFlags_read(ctx, fields.msl),
          LAMBDA v : Goto("ptl.sub_layers",
                          [fields EXCEPT !.i = 0,
                                         !.sub_layer_profile_present_flag = v.profile,
                                         !.sub_layer_level_present_flag = v.level]))

\* What ProfileTierLevel::read called on its own shows of the slot it has
\* just written: whether the slot holds a profile and a level
SlotOf(v) ==
    IF entry = "ptl_read"
    THEN Some([profile |-> v.profile.some, level_idc |-> v.level_idc.some])
    ELSE None

\* for (i, layer) in sub_layers.iter_mut().enumerate(): all seven slots
PtlSubLayer ==
    Inner("ptl.sub_layers",
          SubLayerProfileLevel_read(ctx,
              fields.sub_layer_profile_present_flag[fields.i + 1],
              fields.sub_layer_level_present_flag[fields.i + 1]),
          LAMBDA v :
            IF fields.i + 1 < 7
            THEN Goto("ptl.sub_layers",
                      [fields EXCEPT !.i = @ + 1, !.last_slot = SlotOf(v)])
            ELSE Goto(IF entry = "from_bits" THEN "seq_parameter_set_id" ELSE "done",
                      IF entry = "from_bits"
                      THEN [fields EXCEPT !.i = 0,
                                          !.sub_layer_profile_present_flag = NoFlags,
                                          !.sub_layer_level_present_flag = NoFlags]
                      ELSE [fields EXCEPT !.last_slot = SlotOf(v)]))

---------------------------------------------------------------------------
(* SeqParameterSet::from_bits: seq_parameter_set_id to the block sizes *)

\* ParamSetId::from_u32(r.read_ue("seq_parameter_set_id")?).map_err(..)?
SeqParameterSetId_read(c) ==
    Bind(read_ue(c, {SeqParamSetIdMax, SeqParamSetIdMax + 1, U32Max - 1},
                 "seq_parameter_set_id"), LAMBDA o1 :
      LET id == ParamSetId_from_u32(o1.val, SeqParamSetIdMax) IN
      IF id.ok THEN {Ok(o1.ctx, ParamSetId_id(id))}
      ELSE {Err(o1.ctx, BadSeqParamSetId(id.id))})

SpsSeqParameterSetId ==
    Step("seq_parameter_set_id", "seq_parameter_set_id",
         SeqParameterSetId_read(ctx),
         LAMBDA v : Goto("chroma_info", [fields EXCEPT !.sps_id = v]))

SpsChromaInfo ==
    Step("chroma_info", "chroma_info", ChromaInfo_read(ctx),
         LAMBDA v : Goto("pic_width_in_luma_samples",
                         Keep(fields, "chroma_info", Some(v))))

SpsPicWidth_skips_height ==
    Step("pic_width_in_luma_samples", "pic_width_in_luma_samples",
         read_ue(ctx, UeAny, "pic_width_in_luma_samples"),
         LAMBDA v : Goto("conformance_window", fields))
SpsPicWidth ==
    Step("pic_width_in_luma_samples", "pic_width_in_luma_samples",
         read_ue(ctx, UeAny, "pic_width_in_luma_samples"),
         LAMBDA v : Goto("pic_height_in_luma_samples",
                         Keep(fields, "pic_width_in_luma_samples", v)))

SpsPicHeight ==
    Step("pic_height_in_luma_samples", "pic_height_in_luma_samples",
         read_ue(ctx, {0}, "pic_height_in_luma_samples"),
         LAMBDA v : Goto("conformance_window",
                         Keep(fields, "pic_height_in_luma_samples", v)))

SpsConformanceWindow ==
    Step("conformance_window", "conformance_window", Window_read(ctx),
         LAMBDA v : Goto("bit_depth_luma_minus8",
                         Keep(fields, "conformance_window", v)))

SpsBitDepthLuma ==
    Step("bit_depth_luma_minus8", "bit_depth_luma_minus8",
         read_ue(ctx, {0}, "bit_depth_luma_minus8"),
         LAMBDA v : Goto("bit_depth_chroma_minus8", fields))

SpsBitDepthChroma ==
    Step("bit_depth_chroma_minus8", "bit_depth_chroma_minus8",
         read_ue(ctx, {0}, "bit_depth_chroma_minus8"),
         LAMBDA v : Goto("log2_max_pic_order_cnt_lsb_minus4", fields))

SpsLog2MaxPicOrderCntLsb ==
    Step("log2_max_pic_order_cnt_lsb_minus4", "log2_max_pic_order_cnt_lsb_minus4",
         read_ue(ctx, UeAny, "log2_max_pic_order_cnt_lsb_minus4"),
         LAMBDA v : Goto("sub_layering_ordering_info", fields))

\* LayerInfo::read up to its loop: the number of LayerInfo::read_layer calls
LayerInfo_read_count(c, sps_max_sub_layers_minus1) ==
    Bind(validate_max_num_sub_layers_minus1(c, sps_max_sub_layers_minus1),
         LAMBDA o1 :
      Bind(read_bool(o1.ctx, "sps_sub_layer_ordering_info_present_flag"),
           LAMBDA o2 :
        {Ok(o2.ctx, IF o2.val THEN sps_max_sub_layers_minus1 + 1 ELSE 1)}))

SpsSubLayerOrderingInfo ==
    Step("sub_layering_ordering_info", "sub_layering_ordering_info",
         LayerInfo_read_count(ctx, fields.msl),
         LAMBDA v : Goto("layer_info.layers", [fields EXCEPT !.i = 0, !.n = v]))

SpsLayerInfoLayer ==
    Inner("layer_info.layers", LayerInfo_read_layer(ctx),
          LAMBDA v :
            IF fields.i + 1 < fields.n
            THEN Goto("layer_info.layers", [fields EXCEPT !.i = @ + 1])
            ELSE Goto("log2_min_luma_coding_block_size_minus3",
                      [fields EXCEPT !.i = 0, !.n = 0]))

\* The four block-size logarithms
BlockSizes_read(c) ==
    ReadSeq(c, <<UE(UeAny, "log2_min_luma_coding_block_size_minus3"),
                 UE({0}, "log2_diff_max_min_luma_coding_block_size"),
                 UE({0}, "log2_min_luma_transform_block_size_minus2"),
                 UE({0}, "log2_diff_max_min_luma_transform_block_size")>>)

SpsBlockSizes ==
    Step("log2_min_luma_coding_block_size_minus3", "block_sizes",
         BlockSizes_read(ctx),
         LAMBDA v : Goto("max_transform_hierarchy_depth_inter", fields))

SpsTransformDepthInter ==
    Step("max_transform_hierarchy_depth_inter", "max_transform_hierarchy_depth_inter",
         read_ue(ctx, {0}, "max_transform_hierarchy_depth_inter"),
         LAMBDA v : Goto("max_transform_hierarchy_depth_intra", fields))

SpsTransformDepthIntra ==
    Step("max_transform_hierarchy_depth_intra", "max_transform_hierarchy_depth_intra",
         read_ue(ctx, {0}, "max_transform_hierarchy_depth_intra"),
         LAMBDA v : Goto("scaling_list", fields))

---------------------------------------------------------------------------
(* SeqParameterSet::from_bits: scaling list to the reference picture sets *)

\* ScalingList::read up to read_scaling_list: 0 for None, 1 for a list that
\* is enabled but empty, 2 when the list data follow
ScalingList_read_flags(c) ==
    Bind(read_bool(c, "scaling_list_enabled_flag"), LAMBDA o1 :
      IF o1.val
      THEN MapVal(read_bool(o1.ctx, "sps_scaling_list_data_present_flag"),
                  LAMBDA b : IF b THEN 2 ELSE 1)
      ELSE {Ok(o1.ctx, 0)})

SpsScalingList ==
    Step("scaling_list", "scaling_list", ScalingList_read_flags(ctx),
         LAMBDA v : IF v = 2
                    THEN Goto("scaling_list.matrix",
                              [fields EXCEPT !.size_id = 0, !.i = 0])
                    ELSE Goto(IF entry = "from_bits" THEN "amp_enabled" ELSE "done",
                              [fields EXCEPT !.scaling_list =
                                 IF v = 1 THEN Some("ScalingList") ELSE None]))

\* for size_id in 0..4 { for _matrix_id in (0..6).step_by(..) { .. } }
SpsScalingListMatrix ==
    Inner("scaling_list.matrix", ScalingList_read_matrix(ctx, fields.size_id),
          LAMBDA v :
            IF fields.i + MatrixStep(fields.size_id) < 6
            THEN Goto("scaling_list.matrix",
                      [fields EXCEPT !.i = @ + MatrixStep(fields.size_id)])
            ELSE IF fields.size_id + 1 < 4
            THEN Goto("scaling_list.matrix",
                      [fields EXCEPT !.size_id = @ + 1, !.i = 0])
            ELSE Goto(IF entry = "from_bits" THEN "amp_enabled" ELSE "done",
                      [fields EXCEPT !.size_id = 0, !.i = 0,
                                     !.scaling_list = Some("ScalingList")]))

SpsAmpEnabled ==
    Step("amp_enabled", "amp_enabled", read_bool(ctx, "amp_enabled"),
         LAMBDA v : Goto("sample_adaptive_offset_enabled", fields))

SpsSampleAdaptiveOffsetEnabled ==
    Step("sample_adaptive_offset_enabled", "sample_adaptive_offset_enabled",
         read_bool(ctx, "sample_adaptive_offset_enabled"),
         LAMBDA v : Goto("pcm", fields))

SpsPcm ==
    Step("pcm", "pcm", Pcm_read(ctx), LAMBDA v : Goto("st_ref_pic_sets", fields))

\* ShortTermRefPicSet::read_with_count: the count, then one set per step
\* Within from_bits the sets are dropped once the last one is read, and the
\* locals of a call are not kept: nothing later in from_bits reads them.
SpsStRefPicSets ==
    Step("st_ref_pic_sets", "st_ref_pic_sets",
         read_ue(ctx, 0..MaxRpsSets, "num_short_term_ref_pic_sets"),
         LAMBDA v : IF v = 0
                    THEN Goto(IF entry = "from_bits" THEN "long_term_ref_pics_sps"
                              ELSE "done", fields)
                    ELSE Goto("st_ref_pic_sets.set",
                              [fields EXCEPT !.i = 0, !.n = v, !.sets = <<>>]))

SpsStRefPicSet ==
    Inner("st_ref_pic_sets.set",
          ShortTermRefPicSet_read(ctx, fields.i, fields.n, fields.sets,
                                  RpsDrawsFor(entry, fields.i)),
          LAMBDA v :
            IF fields.i + 1 < fields.n
            THEN Goto("st_ref_pic_sets.set",
                      [fields EXCEPT !.i = @ + 1, !.sets = Append(@, v.set),
                                     !.last_rps = IF entry = "from_bits" THEN None
                                                  ELSE Some(v)])
            ELSE IF entry = "from_bits"
            THEN Goto("long_term_ref_pics_sps",
                      [fields EXCEPT !.i = 0, !.n = 0, !.sets = <<>>])
            ELSE Goto("done",
                      [fields EXCEPT !.i = @ + 1, !.sets = Append(@, v.set),
                                     !.last_rps = Some(v)]))

\* LongTermRefPicSps::read up to the entries: None, or how many entries follow
LongTermRefPicSps_read_count(c) ==
    Bind(read_bool(c, "long_term_ref_pics_present_flag"), LAMBDA o1 :
      IF o1.val
      THEN MapVal(read_ue(o1.ctx, 0..MaxLongTermRefs, "num_long_term_ref_pics_sps"),
                  Some)
      ELSE {Ok(o1.ctx, None)})

\* Where LongTermRefPicSps::read returns to: the next step of from_bits,
\* or the end when the function is run on its own
AfterLongTermRefPics ==
    IF entry = "from_bits" THEN "sps_termporal_mvp_enabled" ELSE "done"

SpsLongTermRefPics ==
    Step("long_term_ref_pics_sps", "long_term_ref_pics_sps",
         LongTermRefPicSps_read_count(ctx),
         LAMBDA v : IF ~v.some \/ v.v = 0
                    THEN Goto(AfterLongTermRefPics, fields)
                    ELSE Goto("long_term_ref_pics_sps.one",
                              [fields EXCEPT !.i = 0, !.n = v.v]))

SpsLongTermRefPic ==
    Inner("long_term_ref_pics_sps.one", LongTermRefPicSps_read_one(ctx),
          LAMBDA v :
            IF fields.i + 1 < fields.n
            THEN Goto("long_term_ref_pics_sps.one", [fields EXCEPT !.i = @ + 1])
            ELSE Goto(AfterLongTermRefPics,
                      [fields EXCEPT !.i = 0, !.n = 0]))

SpsTemporalMvpEnabled ==
    Step("sps_termporal_mvp_enabled", "sps_termporal_mvp_enabled",
         read_bool(ctx, "sps_termporal_mvp_enabled"),
         LAMBDA v : Goto("strong_intra_smoothing_enabled", fields))

SpsStrongIntraSmoothingEnabled ==
    Step("strong_intra_smoothing_enabled", "strong_intra_smoothing_enabled",
         read_bool(ctx, "strong_intra_smoothing_enabled"),
         LAMBDA v : Goto("vui_parameters", fields))

---------------------------------------------------------------------------
(* VuiParameters::read *)

\* VuiParameters::read up to read_one: TRUE when the parameters follow
VuiParameters_read_flag(c) == read_bool(c, "vui_parameeters_present")

SpsVuiParameters ==
    Step("vui_parameters", "vui_parameters", VuiParameters_read_flag(ctx),
         LAMBDA v : IF v THEN Goto("vui.aspect_ratio_info",
                                   Keep(fields, "vui_parameters",
                                        Some([timing_info |-> None])))
                    ELSE Goto("sps_extension", fields))

\* VuiParameters::read_one, field by field
VuiAspectRatioInfo ==
    Inner("vui.aspect_ratio_info", AspectRatioInfo_read(ctx),
          LAMBDA v : Goto("vui.overscan_appropriate", fields))

VuiOverscanAppropriate ==
    Inner("vui.overscan_appropriate", OverscanAppropriate_read(ctx),
          LAMBDA v : Goto("vui.video_signal_type", fields))

VuiVideoSignalType ==
    Inner("vui.video_signal_type", VideoSignalType_read(ctx),
          LAMBDA v : Goto("vui.chroma_loc_info", fields))

VuiChromaLocInfo ==
    Inner("vui.chroma_loc_info", ChromaLocInfo_read(ctx),
          LAMBDA v : Goto("vui.flags", fields))

VuiFlags ==
    Inner("vui.flags", Vui_flags(ctx),
          LAMBDA v : Goto("vui.default_display_window", fields))

VuiDefaultDisplayWindow ==
    Inner("vui.default_display_window", Window_read(ctx),
          LAMBDA v : Goto("vui.timing_info", fields))

\* TimingInfo::read up to hrd_parameters: Some when timing info is there
TimingInfo_read_head(c) ==
    Bind(read_bool(c, "timing_info_present_flag"), LAMBDA o1 :
      IF o1.val
      THEN MapVal(TimingInfo_values(o1.ctx),
                  LAMBDA t : Some(IF c.keep THEN t ELSE TRUE))
      ELSE {Ok(o1.ctx, None)})

VuiTimingInfo ==
    Inner("vui.timing_info", TimingInfo_read_head(ctx),
          LAMBDA v : IF v.some
                     THEN Goto("vui.hrd_parameters",
                               Keep(fields, "vui_parameters",
                                    Some([timing_info |-> v])))
                     ELSE Goto("vui.bitstream_restrictions", fields))

\* HrdParameters::read up to its sub-layer loop: None, or the three flags
\* that the sub-layers are read with
HrdParameters_read_common(c, common_inf_present_flag) ==
    Bind(read_bool(c, "hrd_parameters_present_flag"), LAMBDA o1 :
      IF o1.val
      THEN IF common_inf_present_flag
           THEN MapVal(HrdParametersCommonInf_read(o1.ctx),
                  LAMBDA common :
                    Some([nal |-> common.nal_hrd_parameters_present_flag,
                          vcl |-> common.vcl_hrd_parameters_present_flag,
                          sub_pic |-> common.parameters.some
                                      /\ common.parameters.v.sub_pic_hrd_params]))
           ELSE {Ok(o1.ctx, Some(NoHrd))}
      ELSE {Ok(o1.ctx, None)})

VuiHrdParameters ==
    Inner("vui.hrd_parameters", HrdParameters_read_common(ctx, TRUE),
          LAMBDA v : IF v.some
                     THEN Goto("vui.hrd_sub_layers",
                               [fields EXCEPT !.i = 0, !.hrd = v.v])
                     ELSE Goto("vui.bitstream_restrictions", fields))

\* for _ in 0..=max_num_sub_layers_minus1
VuiHrdSubLayer ==
    Inner("vui.hrd_sub_layers",
          SubLayerHrdParametersContainer_read(ctx, fields.hrd.nal, fields.hrd.vcl,
                                              fields.hrd.sub_pic),
          LAMBDA v :
            IF fields.i + 1 <= fields.msl
            THEN Goto("vui.hrd_sub_layers", [fields EXCEPT !.i = @ + 1])
            ELSE Goto("vui.bitstream_restrictions",
                      [fields EXCEPT !.i = 0, !.hrd = NoHrd]))

VuiBitstreamRestrictions ==
    Inner("vui.bitstream_restrictions", BitstreamRestrictions_read(ctx),
          LAMBDA v : Goto("sps_extension", fields))

---------------------------------------------------------------------------
(* SpsExtension::read and the end of from_bits *)

SpsSpsExtension ==
    Step("sps_extension", "sps_extension", SpsExtension_read_header(ctx),
         LAMBDA v : IF v = 2
                    THEN Goto("sps_extension.data",
                              [fields EXCEPT !.extension = Some("SpsExtension")])
                    ELSE Goto("finish_rbsp",
                              [fields EXCEPT !.extension =
                                 IF v = 1 THEN Some("SpsExtension") ELSE None]))

SpsExtensionData ==
    Inner("sps_extension.data", SpsExtension_read_data(ctx),
          LAMBDA v : IF v THEN Goto("sps_extension.data", fields)
                     ELSE Goto("finish_rbsp", fields))

\* r.finish_rbsp()?; Ok(sps)
SpsFinish_skipped ==
    Step("finish_rbsp", "finish_rbsp", {Ok(ctx, TRUE)},
         LAMBDA v : Goto("done", fields))
SpsFinish ==
    Step("finish_rbsp", "finish_rbsp", finish_rbsp(ctx),
         LAMBDA v : Goto("done", fields))

---------------------------------------------------------------------------
(* Specification of SeqParameterSet::from_bits *)

Init ==
    /\ entry = "from_bits"
    /\ pc = "sps_video_parameter_set_id"
    /\ ctx = Ctx0
    /\ fields = Fields0
    /\ log = <<>>
    /\ result = Running
    /\ arg = None

ProfileTierLevel_read ==
    \/ PtlGeneralProfile
    \/ PtlGeneralLevelIdc
    \/ PtlSubLayerFlags
    \/ PtlSubLayer

Next ==
    \/ SpsVideoParameterSetId
    \/ SpsMaxSubLayersMinus1
    \/ SpsTemporalIdNesting
    \/ ProfileTierLevel_read
    \/ SpsSeqParameterSetId
    \/ SpsChromaInfo
    \/ SpsPicWidth
    \/ SpsPicHeight
    \/ SpsConformanceWindow
    \/ SpsBitDepthLuma
    \/ SpsBitDepthChroma
    \/ SpsLog2MaxPicOrderCntLsb
    \/ SpsSubLayerOrderingInfo
    \/ SpsLayerInfoLayer
    \/ SpsBlockSizes
    \/ SpsTransformDepthInter
    \/ SpsTransformDepthIntra
    \/ SpsScalingList
    \/ SpsScalingListMatrix
    \/ SpsAmpEnabled
    \/ SpsSampleAdaptiveOffsetEnabled
    \/ SpsPcm
    \/ SpsStRefPicSets
    \/ SpsStRefPicSet
    \/ SpsLongTermRefPics
    \/ SpsLongTermRefPic
    \/ SpsTemporalMvpEnabled
    \/ SpsStrongIntraSmoothingEnabled
    \/ SpsVuiParameters
    \/ VuiAspectRatioInfo
    \/ VuiOverscanAppropriate
    \/ VuiVideoSignalType
    \/ VuiChromaLocInfo
    \/ VuiFlags
    \/ VuiDefaultDisplayWindow
    \/ VuiTimingInfo
    \/ VuiHrdParameters
    \/ VuiHrdSubLayer
    \/ VuiBitstreamRestrictions
    \/ SpsSpsExtension
    \/ SpsExtensionData
    \/ SpsFinish

Spec == Init /\ [][Next]_vars

---------------------------------------------------------------------------
(* Specification of ProfileTierLevel::read called on its own *)

\* Arguments explored: max_num_sub_layers_minus1 is a u8
PtlMaxSubLayersDraws == {0, 1, 2, 7, 8, 9, 2^U8Bits - 1}

InitPtl ==
    /\ entry = "ptl_read"
    /\ arg \in [max_num_sub_layers_minus1 : PtlMaxSubLayersDraws,
                profile_present_flag : BOOLEAN]
    /\ pc = "profile_tier_level"
    /\ ctx = CtxCounting
    /\ fields = [Fields0 EXCEPT !.msl = arg.max_num_sub_layers_minus1,
                                !.profile_present = arg.profile_present_flag]
    /\ log = <<>>
    /\ result = Running

SpecPtl == InitPtl /\ [][ProfileTierLevel_read]_vars

---------------------------------------------------------------------------
(* Specification of ParamSetId::from_u32 and ParamSetId::id *)

IdDraws ==
    0..(PicParamSetIdMax + 2)
    \cup {2^U8Bits - 1, 2^U8Bits, 2^U8Bits + SeqParamSetIdMax, U32Max}

InitId ==
    /\ entry = "from_u32"
    /\ arg \in [id : IdDraws, MAX : {SeqParamSetIdMax, PicParamSetIdMax}]
    /\ pc = "from_u32"
    /\ ctx = Ctx0
    /\ fields = Fields0
    /\ log = <<>>
    /\ result = Running

\* ParamSetId::<MAX>::from_u32(id)
FromU32 ==
    /\ pc = "from_u32"
    /\ LET r == ParamSetId_from_u32(arg.id, arg.MAX) IN
       IF r.ok
       THEN /\ pc' = "id"
            /\ result' = [kind |-> "Ok", err |-> NoErr, val |-> Some(r)]
       ELSE /\ pc' = "done"
            /\ result' = [kind |-> "Err", err |-> IdTooLarge(r.id),
                          val |-> None]
    /\ UNCHANGED <<entry, ctx, fields, log, arg>>

\* .id() on the identifier made
IdOf ==
    /\ pc = "id"
    /\ pc' = "done"
    /\ fields' = [fields EXCEPT !.sps_id = ParamSetId_id(result.val.v)]
    /\ UNCHANGED <<entry, ctx, log, result, arg>>

NextId == FromU32 \/ IdOf

SpecId == InitId /\ [][NextId]_vars

---------------------------------------------------------------------------
(* SeqParameterSet::pixel_dimensions *)

\* u32::checked_mul, u32::checked_sub
checked_mul(a, b) == IF a * b > U32Max THEN None ELSE Some(a * b)
checked_sub_wrapping(a, b) == Some((a - b) % (2^WordBits))
checked_sub(a, b) == IF a < b THEN None ELSE Some(a - b)

\* self.conformance_window.clone().unwrap_or_default()
Window_default ==
    [win_left_offset |-> 0, win_right_offset |-> 0,
     win_top_offset |-> 0, win_bottom_offset |-> 0]
unwrap_or_default(window) == IF window.some THEN window.v ELSE Window_default

\* (sub_width_c, sub_height_c) of the match on chroma_format
SubWidthHeightC_all_halved(format) ==
    IF format \in {"YUV420", "YUV422"} THEN <<2, 2>> ELSE <<1, 1>>
SubWidthHeightC(format) ==
    CASE format = "Monochrome" -> <<1, 1>>
      [] format = "YUV420" -> <<2, 2>>
      [] format = "YUV422" -> <<2, 1>>
      [] format = "YUV444" -> <<1, 1>>

\* offset.checked_mul(factor).and_then(|o| size.checked_sub(o)).ok_or(..)
Cropped(size, offset, factor, name) ==
    LET scaled == checked_mul(offset, factor)
        left == IF scaled.some THEN checked_sub(size, scaled.v) ELSE None
    IN IF left.some THEN [ok |-> TRUE, val |-> left.v]
       ELSE [ok |-> FALSE, err |-> FieldValueTooLarge(name, offset)]

pixel_dimensions(sps) ==
    LET win == unwrap_or_default(sps.conformance_window)
        chroma_format == sps.chroma_info.chroma_format
    IN IF chroma_format.format = "Invalid"
       THEN [ok |-> FALSE,
             err |-> FieldValueTooLarge("chroma_format_idc", chroma_format.idc)]
       ELSE
       LET sub == SubWidthHeightC(chroma_format.format)
           w1 == Cropped(sps.pic_width_in_luma_samples, win.win_left_offset,
                         sub[1], "win_left_offset")
       IN IF ~w1.ok THEN w1 ELSE
       LET w2 == Cropped(w1.val, win.win_right_offset, sub[1], "win_right_offset")
       IN IF ~w2.ok THEN w2 ELSE
       LET h1 == Cropped(sps.pic_height_in_luma_samples, win.win_top_offset,
                         sub[2], "win_top_offset")
       IN IF ~h1.ok THEN h1 ELSE
       LET h2 == Cropped(h1.val, win.win_bottom_offset, sub[2], "win_bottom_offset")
       IN IF ~h2.ok THEN h2 ELSE [ok |-> TRUE, val |-> <<w2.val, h2.val>>]

\* SPSs explored: the fields that pixel_dimensions reads
WidthDraws == {0, 736, U32Max}
HeightDraws == {0, 544, U32Max}
\* an offset that overflows when doubled and underflows a small picture
OffsetHuge == 2^(WordBits - 1)
WindowDraws ==
    {None} \cup
    {Some([win_left_offset |-> l, win_right_offset |-> r,
           win_top_offset |-> t, win_bottom_offset |-> b])
       : l \in {0, 1, OffsetHuge}, r \in {0, 8, OffsetHuge},
         t \in {0, 1, OffsetHuge}, b \in {0, 2, OffsetHuge}}

InitDim ==
    /\ entry = "pixel_dimensions"
    /\ arg \in [chroma_info :
                  {[chroma_format |-> ChromaFormat_from_chroma_format_idc(idc),
                    separate_colour_plane_flag |-> FALSE] : idc \in 0..4},
                pic_width_in_luma_samples : WidthDraws,
                pic_height_in_luma_samples : HeightDraws,
                conformance_window : WindowDraws]
    /\ pc = "pixel_dimensions"
    /\ ctx = Ctx0
    /\ fields = Fields0
    /\ log = <<>>
    /\ result = Running

PixelDimensions ==
    /\ pc = "pixel_dimensions"
    /\ pc' = "done"
    /\ LET r == pixel_dimensions(arg) IN
       result' = IF r.ok THEN [kind |-> "Ok", err |-> NoErr, val |-> Some(r.val)]
                 ELSE [kind |-> "Err", err |-> r.err, val |-> None]
    /\ UNCHANGED <<entry, ctx, fields, log, arg>>

SpecDim == InitDim /\ [][PixelDimensions]_vars

---------------------------------------------------------------------------
(* Specification of LayerProfile::profile *)

\* The constraint flags explored, max_14bit first: every pattern of the match
\* tables with its wildcard both ways, all flags clear and all flags set
TuplesOf(arms, lead) ==
    UNION {{[i \in 1..(Len(lead) + Len(arms[a].pat)) |->
               LET x == (lead \o arms[a].pat)[i] IN IF x = 2 THEN w ELSE x]
              : w \in {0, 1}} : a \in 1..Len(arms)}
FlagDraws ==
    TuplesOf(Arms4, <<0>>) \cup TuplesOf(Arms5, <<>>) \cup TuplesOf(Arms7, <<0>>)
    \cup TuplesOf(Arms9, <<>>) \cup TuplesOf(Arms10, <<>>)
    \cup {[i \in 1..10 |-> 0], [i \in 1..10 |-> 1]}
ProfileCompatDraws == {{}, {1}, {2}, {3}, {4}, {9}, {1, 2}, {0}, {12}}

LayerProfile_with_flags(p, t) ==
    [p EXCEPT !.max_14bit = (t[1] = 1), !.max_12bit = (t[2] = 1),
              !.max_10bit = (t[3] = 1), !.max_8bit = (t[4] = 1),
              !.max_422chroma = (t[5] = 1), !.max_420chroma = (t[6] = 1),
              !.max_monochrome = (t[7] = 1), !.intra = (t[8] = 1),
              !.one_picture_only = (t[9] = 1), !.lower_bit_rate = (t[10] = 1)]

InitProfile ==
    /\ entry = "profile"
    /\ arg \in {LayerProfile_with_flags(LayerProfile_default(0, FALSE, idc, compat), t)
                  : idc \in IdcDraws, compat \in ProfileCompatDraws, t \in FlagDraws}
    /\ pc = "profile"
    /\ ctx = Ctx0
    /\ fields = Fields0
    /\ log = <<>>
    /\ result = Running

ProfileOf ==
    /\ pc = "profile"
    /\ pc' = "done"
    /\ result' = [kind |-> "Ok", err |-> NoErr,
                  val |-> Some(LayerProfile_profile(arg))]
    /\ UNCHANGED <<entry, ctx, fields, log, arg>>

SpecProfile == InitProfile /\ [][ProfileOf]_vars

---------------------------------------------------------------------------
(* Properties of SeqParameterSet::from_bits (specification Spec) *)

IsPrefix(u, w) == Len(u) <= Len(w) /\ SubSeq(w, 1, Len(u)) = u

\* The top-level syntax elements in the order the format gives them
TopLevelOrder ==
    <<"sps_video_parameter_set_id", "sps_max_sub_layers_minus1",
      "sps_temporal_id_nesting", "profile_tier_level", "seq_parameter_set_id",
      "chroma_info", "pic_width_in_luma_samples", "pic_height_in_luma_samples",
      "conformance_window", "bit_depth_luma_minus8", "bit_depth_chroma_minus8",
      "log2_max_pic_order_cnt_lsb_minus4", "sub_layering_ordering_info",
      "block_sizes", "max_transform_hierarchy_depth_inter",
      "max_transform_hierarchy_depth_intra", "scaling_list", "amp_enabled",
      "sample_adaptive_offset_enabled", "pcm", "st_ref_pic_sets",
      "long_term_ref_pics_sps", "sps_termporal_mvp_enabled",
      "strong_intra_smoothing_enabled", "vui_parameters", "sps_extension",
      "finish_rbsp">>

\* C1: from_bits never crashes: no execution ends in a panic (an expect, an
\* unwrap, a panic! or an arithmetic overflow check); every execution that
\* ends returns Ok(SeqParameterSet) or a typed SpsError.
C1_NeverCrashes ==
    /\ result.kind # "Panic"
    /\ pc = "done" => result.kind \in {"Ok", "Err"}

\* C2: first-error propagation: no reader call is made after a failure; a
\* failed read or validation is returned at once, as the very error that was
\* raised first, and with no SeqParameterSet; Ok is returned only when no
\* read and no validation failed and finish_rbsp, the last call, succeeded.
C2_FirstErrorPropagation ==
    /\ ctx.late = 0
    /\ (ctx.failed /\ ctx.first.kind # "panic")
         => /\ pc = "done"
            /\ result.kind = "Err"
            /\ result.err = ctx.first
            /\ result.val = None
    /\ result.kind = "Err" => ctx.failed /\ result.err = ctx.first
    /\ result.kind = "Ok"
         => /\ ~ctx.failed
            /\ log = TopLevelOrder
            /\ ctx.known /\ ctx.tail = <<>>

C2_Witness ==
    /\ result.kind = "Err"
    /\ result.err = RbspReaderError("OutOfBits", "pcm_loop_filter_disabled")
    /\ log[Len(log)] = "pcm"
    /\ result.val = None

\* C3: trailing data are rejected: when every element through the SPS
\* extension parsed and the bits left are not the stop bit with its zero
\* padding, from_bits fails with TrailingData and returns no SPS; finish_rbsp
\* is called at most once, after all the other elements, and an SPS is
\* returned only after it was called and found the stop pattern.
C3_TrailingDataRejected ==
    /\ Cardinality({i \in 1..Len(log) : log[i] = "finish_rbsp"}) <= 1
    /\ (\E i \in 1..Len(log) : log[i] = "finish_rbsp")
         => /\ log = TopLevelOrder
            /\ pc = "done"
            /\ ctx.known
            /\ ctx.first.kind \in {"none", "RbspReaderError"}
            /\ ctx.first.kind = "RbspReaderError" => ctx.first.name = "finish"
            /\ (ctx.tail # <<>> /\ ~IsStopPattern(ctx.tail))
                 => /\ result.kind = "Err"
                    /\ result.err = RbspReaderError("TrailingData", "finish")
                    /\ result.val = None
    /\ result.kind = "Ok"
         => /\ log[Len(log)] = "finish_rbsp"
            /\ ctx.known
            /\ ctx.tail = <<>>

C3_Witness ==
    /\ log = TopLevelOrder
    /\ ctx.tail # <<>>
    /\ ctx.tail[1] = 1
    /\ ~IsStopPattern(ctx.tail)
    /\ result.err = RbspReaderError("TrailingData", "finish")

\* C4: read order: the top-level elements are taken up in the order of the
\* format, none out of order and none twice, the first two being 4 and 3 bits
\* wide; a successful parse has taken up all of them, finish last.
C4_ReadOrder ==
    /\ IsPrefix(log, TopLevelOrder)
    /\ pc = "sps_max_sub_layers_minus1" => ctx.pos = 4
    /\ pc = "sps_temporal_id_nesting" => ctx.pos = 7
    /\ pc = "profile_tier_level" => ctx.pos = 0
    /\ result.kind = "Ok" => log = TopLevelOrder

C4_Witness ==
    /\ result.kind = "Ok"
    /\ log = TopLevelOrder
    /\ Len(log) = 27

\* C10: SPS extensions are rejected explicitly: with the present flag and one
\* of the four extension flags set (the header bits being there) the parse
\* fails with Unimplemented and returns no SPS; with the present flag set and
\* none of the four the SPS carries Some(SpsExtension), and with the present
\* flag clear it carries None.
C10_ExtensionsRejected ==
    /\ pc = "sps_extension" =>
         \A o \in SpsExtension_read_bits(ctx) :
           o.ok =>
             \A q \in SpsExtension_check(o.ctx, o.val) :
               IF o.val.some /\ (\E j \in 1..4 : o.val.v[j] = 1)
               THEN ~q.ok /\ q.err.kind = "Unimplemented"
               ELSE q.ok /\ (q.val = 0 <=> ~o.val.some)
    /\ result.err.kind = "Unimplemented"
         => /\ result.kind = "Err"
            /\ result.val = None
            /\ log[Len(log)] = "sps_extension"
    /\ pc \in {"sps_extension.data", "finish_rbsp"}
         => fields.extension \in {None, Some("SpsExtension")}
    /\ pc = "sps_extension.data" => fields.extension = Some("SpsExtension")
    /\ result.kind = "Ok" => result.val.v.extension = fields.extension

C10_Witness ==
    /\ result.kind = "Err"
    /\ result.err = Unimplemented("sps_scc_extension")
    /\ log[Len(log)] = "sps_extension"

---------------------------------------------------------------------------
(* Properties of ParamSetId (specification SpecId) *)

\* C5: bounded identifiers: from_u32(id) succeeds exactly when id <= MAX (so
\* also at id = MAX), fails with IdTooLarge(id) when id > MAX (so also at
\* MAX + 1), and id() of the identifier made is the id passed in.
C5_BoundedIdentifiers ==
    pc # "from_u32" =>
      /\ result.kind = "Ok" <=> arg.id <= arg.MAX
      /\ arg.id > arg.MAX => result.kind = "Err" /\ result.err = IdTooLarge(arg.id)
      /\ result.kind = "Ok" => result.val.v.id = arg.id
      /\ (result.kind = "Ok" /\ pc = "done") => fields.sps_id = arg.id

C5_Witness ==
    /\ pc = "done"
    /\ arg.id = PicParamSetIdMax
    /\ arg.MAX = PicParamSetIdMax
    /\ result.kind = "Ok"
    /\ fields.sps_id = PicParamSetIdMax

---------------------------------------------------------------------------
(* Properties of SeqParameterSet::pixel_dimensions (specification SpecDim) *)

\* The chroma factors (SubWidthC, SubHeightC) of the format
ChromaFactors(format) ==
    IF format = "YUV420" THEN <<2, 2>>
    ELSE IF format = "YUV422" THEN <<2, 1>>
    ELSE <<1, 1>>

\* The offsets of the window of the SPS, none meaning all zero
OffsetsOf(sps) ==
    IF sps.conformance_window.some
    THEN <<sps.conformance_window.v.win_left_offset,
           sps.conformance_window.v.win_right_offset,
           sps.conformance_window.v.win_top_offset,
           sps.conformance_window.v.win_bottom_offset>>
    ELSE <<0, 0, 0, 0>>

OffsetNames ==
    <<"win_left_offset", "win_right_offset", "win_top_offset", "win_bottom_offset">>

\* Offset i (1 left, 2 right, 3 top, 4 bottom) cannot be applied: scaled it
\* overflows the word, or with the offsets before it on its axis it crops
\* more than the picture has
Offends(sps, i) ==
    LET o == OffsetsOf(sps)
        f == ChromaFactors(sps.chroma_info.chroma_format.format)
    IN CASE i = 1 -> f[1] * o[1] > U32Max
                     \/ f[1] * o[1] > sps.pic_width_in_luma_samples
         [] i = 2 -> f[1] * o[2] > U32Max
                     \/ f[1] * (o[1] + o[2]) > sps.pic_width_in_luma_samples
         [] i = 3 -> f[2] * o[3] > U32Max
                     \/ f[2] * o[3] > sps.pic_height_in_luma_samples
         [] i = 4 -> f[2] * o[4] > U32Max
                     \/ f[2] * (o[3] + o[4]) > sps.pic_height_in_luma_samples

ValidChroma(sps) == sps.chroma_info.chroma_format.format # "Invalid"

\* C6: cropped dimensions: with a valid chroma format and cropping that
\* neither overflows nor underflows, pixel_dimensions returns
\* (W - SubWidthC * (left + right), H - SubHeightC * (top + bottom)), an
\* absent window counting as all-zero offsets.
C6_CroppedDimensions ==
    (pc = "done" /\ ValidChroma(arg) /\ \A i \in 1..4 : ~Offends(arg, i)) =>
      LET o == OffsetsOf(arg)
          f == ChromaFactors(arg.chroma_info.chroma_format.format)
      IN /\ result.kind = "Ok"
         /\ result.val.v =
              <<arg.pic_width_in_luma_samples - f[1] * (o[1] + o[2]),
                arg.pic_height_in_luma_samples - f[2] * (o[3] + o[4])>>

C6_Witness ==
    /\ pc = "done"
    /\ arg.chroma_info.chroma_format.format = "YUV420"
    /\ arg.pic_width_in_luma_samples = 736
    /\ arg.pic_height_in_luma_samples = 544
    /\ OffsetsOf(arg) = <<0, 8, 0, 2>>
    /\ result.kind = "Ok"
    /\ result.val.v = <<720, 540>>

\* C7: cropping never wraps: when an offset cannot be applied the result is
\* FieldValueTooLarge naming the first such offset in the order left, right,
\* top, bottom, with its raw value; the result is Ok exactly when no offset
\* offends and the chroma format is valid, and then no dimension has grown.
C7_CroppingNeverWraps ==
    pc = "done" =>
      /\ result.kind = "Ok" <=> (ValidChroma(arg) /\ \A i \in 1..4 : ~Offends(arg, i))
      /\ \A i \in 1..4 :
           (ValidChroma(arg) /\ Offends(arg, i) /\ \A j \in 1..(i - 1) : ~Offends(arg, j))
             => /\ result.kind = "Err"
                /\ result.err = FieldValueTooLarge(OffsetNames[i], OffsetsOf(arg)[i])
      /\ ~ValidChroma(arg) => result.kind = "Err"
      /\ result.kind = "Ok"
           => /\ result.val.v[1] <= arg.pic_width_in_luma_samples
              /\ result.val.v[2] <= arg.pic_height_in_luma_samples
              /\ result.val.v[1] >= 0 /\ result.val.v[2] >= 0

C7_Witness ==
    /\ pc = "done"
    /\ arg.chroma_info.chroma_format.format = "YUV444"
    /\ arg.pic_width_in_luma_samples = U32Max
    /\ OffsetsOf(arg)[1] = OffsetHuge
    /\ OffsetsOf(arg)[2] = OffsetHuge
    /\ result.err = FieldValueTooLarge("win_right_offset", OffsetHuge)

---------------------------------------------------------------------------
(* Properties of LayerProfile::profile (specification SpecProfile) *)

\* The match table of profile family k (4..11) and the tuple it is keyed by
TableOf(k) ==
    CASE k = 4 -> Arms4 [] k = 5 -> Arms5 [] k = 6 -> Arms6 [] k = 7 -> Arms7
      [] k = 8 -> Arms8 [] k = 9 -> Arms9 [] k = 10 -> Arms10 [] k = 11 -> Arms11
KeyOf(k, p) == IF k \in {5, 9, 10, 11} THEN Tuple10(p) ELSE Tuple9(p)

\* What the table assigns to the flags of p within family k: the variants of
\* the entries that the flags match, or Unknown(profile_idc) when none does
TableAssigns(k, p) ==
    CASE k = 1 -> {Named("Main")}
      [] k = 2 -> {IF p.one_picture_only THEN Named("Main10StillPicture")
                   ELSE Named("Main10")}
      [] k = 3 -> {Named("MainStillPicture")}
      [] k \in 4..11 ->
           LET hits == {a \in 1..Len(TableOf(k)) :
                          Matches(KeyOf(k, p), TableOf(k)[a].pat)}
           IN IF hits = {} THEN {Unknown(p.profile_idc)}
              ELSE {Named(TableOf(k)[a].variant) : a \in hits}
      [] OTHER -> {Unknown(p.profile_idc)}

\* The families p belongs to by its profile_idc or by a compatibility flag
FamiliesOf(p) == {k \in 1..11 : p.profile_idc = k \/ k \in p.profile_compatibility_flag}
LowestFamily(p) ==
    IF FamiliesOf(p) = {} THEN 0
    ELSE CHOOSE k \in FamiliesOf(p) : \A j \in FamiliesOf(p) : k <= j

\* C8 as stated: for profile_idc in 1..11 profile() returns what the table
\* assigns to (profile_idc, constraint flags), Unknown(profile_idc) for a
\* tuple not in the table; it never fails.
C8_KeyedByProfileIdc ==
    (pc = "done" /\ arg.profile_idc \in 1..11) =>
      /\ result.kind = "Ok"
      /\ result.val.v \in TableAssigns(arg.profile_idc, arg)

\* C8 amended: profile() returns what the table assigns to (k, constraint
\* flags) for the lowest k in 1..11 with profile_idc = k or
\* profile_compatibility_flag[k] set, and Unknown(profile_idc) when there is
\* no such k or the flags match no entry of the table of k; it never fails.
C8_KeyedByLowestFamily ==
    pc = "done" =>
      /\ result.kind = "Ok"
      /\ result.val.v \in TableAssigns(LowestFamily(arg), arg)
      /\ Cardinality(TableAssigns(LowestFamily(arg), arg)) = 1

C8_Witness ==
    /\ pc = "done"
    /\ arg.profile_idc = 2
    /\ arg.profile_compatibility_flag = {1}
    /\ result.val.v = Named("Main")

---------------------------------------------------------------------------
(* Properties of ProfileTierLevel::read (specification SpecPtl) *)

\* The bits of the general profile and general_level_idc
GeneralBits(profile_present_flag) == (IF profile_present_flag THEN 88 ELSE 0) + 8

\* C9: an oversized sub-layer count is rejected: with
\* max_num_sub_layers_minus1 > 7 the read never succeeds and, the general
\* profile and level being there, fails with FieldValueTooLarge naming
\* max_num_sub_layers_minus1 with its value; with a value <= 7 the check
\* passes; the check comes right after general_level_idc, before any
\* sub-layer presence flag is read.
C9_SubLayerCountChecked ==
    /\ arg.max_num_sub_layers_minus1 > 7
         => /\ result.kind # "Ok"
            /\ pc \notin {"ptl.sub_layer_flags", "ptl.sub_layers"}
            /\ pc = "done"
                 => \/ result.err = FieldValueTooLarge("max_num_sub_layers_minus1",
                                                       arg.max_num_sub_layers_minus1)
                    \/ /\ result.err.kind = "RbspReaderError"
                       /\ ctx.pos < GeneralBits(arg.profile_present_flag)
    /\ arg.max_num_sub_layers_minus1 <= 7
         => result.err.kind # "FieldValueTooLarge"
    /\ result.err.kind = "FieldValueTooLarge"
         => /\ ctx.pos = GeneralBits(arg.profile_present_flag)
            /\ result.kind = "Err"
    /\ pc \in {"ptl.sub_layer_flags", "ptl.sub_layers"}
         => /\ arg.max_num_sub_layers_minus1 <= 7
            /\ ctx.pos >= GeneralBits(arg.profile_present_flag)

C9_Witness ==
    /\ pc = "done"
    /\ arg.max_num_sub_layers_minus1 = 8
    /\ arg.profile_present_flag
    /\ ctx.pos = 96
    /\ result.err = FieldValueTooLarge("max_num_sub_layers_minus1", 8)

---------------------------------------------------------------------------
(* SeqParameterSet::fps *)

\* An f64 is sign-free here: zero, m / 2^s (m odd unless s = 0), infinity or
\* NaN.  The significand holds F64MantissaBits bits, more than a u32 has, so
\* that u32 as f64 is exact, as 53 bits are for 32.
F64MantissaBits == 16

F64Inf == [kind |-> "inf", m |-> 0, s |-> 0]
F64NaN == [kind |-> "nan", m |-> 0, s |-> 0]
RECURSIVE F64Finite(_, _)
F64Finite(m, s) ==
    IF s > 0 /\ m % 2 = 0 THEN F64Finite(m \div 2, s - 1)
    ELSE [kind |-> "finite", m |-> m, s |-> s]

\* the binary point of the quotient: the least s with n * 2^s / d of full width
RECURSIVE F64Shift(_, _, _)
F64Shift(n, d, s) ==
    IF n * 2^s >= d * 2^(F64MantissaBits - 1) THEN s ELSE F64Shift(n, d, s + 1)

\* (n as f64) / (d as f64): IEEE division, rounded to nearest, ties to even
f64_div_swapped(n, d) ==
    IF n = 0 THEN (IF d = 0 THEN F64NaN ELSE F64Inf)
    ELSE F64Finite(d \div n, 0)
f64_div(n, d) ==
    IF d = 0 THEN (IF n = 0 THEN F64NaN ELSE F64Inf)
    ELSE IF n = 0 THEN F64Finite(0, 0)
    ELSE LET s == F64Shift(n, d, 0)
             q == (n * 2^s) \div d
             r == (n * 2^s) % d
             up == 2 * r > d \/ (2 * r = d /\ q % 2 = 1)
         IN F64Finite(IF up THEN q + 1 ELSE q, s)

\* SeqParameterSet::fps
fps(sps) ==
    IF ~sps.vui_parameters.some THEN None
    ELSE IF ~sps.vui_parameters.v.timing_info.some THEN None
    ELSE LET timing_info == sps.vui_parameters.v.timing_info.v
         IN Some(f64_div(timing_info.time_scale, timing_info.num_units_in_tick))

\* SPSs explored: the fields that fps reads
TickDraws == {0, 1, 2, 3, 7, 24, 25, 1000, 1001, U32Max}
VuiDraws ==
    {None, Some([timing_info |-> None])} \cup
    {Some([timing_info |-> Some([time_scale |-> t, num_units_in_tick |-> u])])
       : t \in TickDraws, u \in TickDraws}

InitFps ==
    /\ entry = "fps"
    /\ arg \in [vui_parameters : VuiDraws]
    /\ pc = "fps"
    /\ ctx = Ctx0
    /\ fields = Fields0
    /\ log = <<>>
    /\ result = Running

Fps ==
    /\ pc = "fps"
    /\ pc' = "done"
    /\ result' = [kind |-> "Ok", err |-> NoErr, val |-> Some(fps(arg))]
    /\ UNCHANGED <<entry, ctx, fields, log, arg>>

SpecFps == InitFps /\ [][Fps]_vars

---------------------------------------------------------------------------
(* Properties of SeqParameterSet::fps (specification SpecFps) *)

Abs(x) == IF x < 0 THEN -x ELSE x

\* x is the f64 quotient of n by d: exact when it has that few bits, else
\* within half a unit of the last place; infinity or NaN when d = 0
IsQuotient(x, n, d) ==
    IF d = 0 THEN x = (IF n = 0 THEN F64NaN ELSE F64Inf)
    ELSE /\ x.kind = "finite"
         /\ (x.m = 0) = (n = 0)
         /\ Abs(x.m * d - n * 2^x.s) * 2^F64MantissaBits <= n * 2^x.s
         /\ (n % d = 0 => x = [kind |-> "finite", m |-> n \div d, s |-> 0])

\* C12: fps() returns None exactly when vui_parameters or its timing_info is
\* absent, and otherwise Some(time_scale / num_units_in_tick) as an f64
\* quotient (25 for time_scale 25 and num_units_in_tick 1); it never fails
\* and leaves the reader untouched.
C12_FpsFromTimingInfo ==
    pc = "done" =>
      LET timed == arg.vui_parameters.some /\ arg.vui_parameters.v.timing_info.some
          v == result.val.v
      IN /\ result.kind = "Ok"
         /\ ctx = Ctx0 /\ log = <<>>
         /\ ~v.some <=> ~timed
         /\ timed =>
              LET t == arg.vui_parameters.v.timing_info.v
              IN /\ IsQuotient(v.v, t.time_scale, t.num_units_in_tick)
                 /\ (t.time_scale = 25 /\ t.num_units_in_tick = 1)
                      => v.v = [kind |-> "finite", m |-> 25, s |-> 0]

C12_Witness ==
    /\ pc = "done"
    /\ arg.vui_parameters.some /\ arg.vui_parameters.v.timing_info.some
    /\ arg.vui_parameters.v.timing_info.v.time_scale = 1000
    /\ arg.vui_parameters.v.timing_info.v.num_units_in_tick = 7
    /\ result.val.v.v.kind = "finite"
    /\ result.val.v.v.s > 0

---------------------------------------------------------------------------
(* src/nal/pps.rs: PicParameterSet::from_bits *)

\* unimplemented!("Not implemented yet"): a panic, whatever the arguments
PicParameterSet_from_bits(context, r) ==
    {Err(r, Panic("not implemented: Not implemented yet"))}

\* Calls explored: the context holds any set of sequence parameter sets (by
\* id) and the buffer is any string of at most MaxPpsBits bits
MaxPpsBits == 3
PpsBuffers == UNION {[1..n -> Bit] : n \in 0..MaxPpsBits}

InitPps ==
    /\ entry = "pps_from_bits"
    /\ arg \in [context : SUBSET (0..2), buffer : PpsBuffers]
    /\ pc = "pps_from_bits"
    /\ ctx = [Ctx0 EXCEPT !.known = TRUE, !.tail = arg.buffer]
    /\ fields = Fields0
    /\ log = <<>>
    /\ result = Running

PpsFromBits ==
    /\ pc = "pps_from_bits"
    /\ pc' = "done"
    /\ \E o \in PicParameterSet_from_bits(arg.context, ctx) :
         /\ ctx' = o.ctx
         /\ result' = IF o.ok THEN Returned(o.val) ELSE Failure(o.err)
    /\ UNCHANGED <<entry, fields, log, arg>>

SpecPps == InitPps /\ [][PpsFromBits]_vars

\* C13: PicParameterSet::from_bits returns an Unimplemented error to its
\* caller for every context and buffer; it never returns Ok and never
\* panics.
C13_PpsTypedFailure ==
    pc = "done" => /\ result.kind = "Err"
                   /\ result.err.kind = "Unimplemented"

---------------------------------------------------------------------------
(* Specification of ScalingList::read called on its own, with a reader that *)
(* counts the bits it has consumed within its window                        *)

InitScaling ==
    /\ entry = "scaling_list_read"
    /\ arg = None
    /\ pc = "scaling_list"
    /\ ctx = CtxWindow
    /\ fields = Fields0
    /\ log = <<>>
    /\ result = Running

ScalingList_read == SpsScalingList \/ SpsScalingListMatrix

SpecScaling == InitScaling /\ [][ScalingList_read]_vars

---------------------------------------------------------------------------
(* Properties of ScalingList::read (specification SpecScaling) *)

\* Bits of one se code word with the value v, and of any se code word
SeCost(v) == UeCost(IF v > 0 THEN 2 * v - 1 ELSE -2 * v)
SeCosts == {2 * k + 1 : k \in 0..(WordBits - 1)}

\* Bits consumed by a step, for a reader that counts within its window
Consumed == (ctx'.pos - ctx.pos) % ctx.window

\* The bits that one matrix entry of size class size_id may take: the
\* pred-mode flag, and then either one ue, or (size classes above 1) one se
\* DC coefficient and then min(64, 2^(4 + 2 size_id)) se delta coefficients
EntryCosts(size_id) ==
    {1 + UeCost(v) : v \in UeAny}
    \cup {1 + dc + coefs
            : dc \in IF size_id > 1 THEN SeCosts ELSE {0},
              coefs \in {CoefNum(size_id) * SeCost(d) : d \in {0, -1}}}

\* A matrix entry was read and the scan goes on or ends: the entry after
\* (size_id, matrix_id), matrix ids advancing by step
ScanAdvances(step) ==
    /\ Consumed \in EntryCosts(fields.size_id)
    /\ IF fields.i + step < 6
       THEN /\ pc' = "scaling_list.matrix"
            /\ fields'.size_id = fields.size_id
            /\ fields'.i = fields.i + step
       ELSE IF fields.size_id < 3
       THEN /\ pc' = "scaling_list.matrix"
            /\ fields'.size_id = fields.size_id + 1
            /\ fields'.i = 0
       ELSE /\ pc' = "done"
            /\ result'.kind = "Ok"
            /\ result'.val.v.scaling_list = Some("ScalingList")

EntryRead == pc = "scaling_list.matrix" /\ result'.kind \in {"running", "Ok"}

\* C19 as stated: with both flags set, all 6 matrix ids of each of the 4 size
\* classes are scanned (24 entries), each entry reading the pred-mode flag
\* and then one ue or the DC coefficient (size classes above 1) and the
\* delta coefficients; the result is Some(ScalingList).
C19_ScansAllMatrixIds ==
    [][EntryRead => ScanAdvances(1)]_vars

\* C19 amended: matrix ids 0..5 are scanned in size classes 0, 1 and 2 and
\* matrix ids 0 and 3 in size class 3 (20 entries), each entry reading the
\* pred-mode flag and then one ue or the DC coefficient (size classes above
\* 1) and min(64, 2^(4 + 2 sizeId)) delta coefficients; the result is
\* Some(ScalingList), and the scan starts exactly when both flags are set.
C19_ScansStandardMatrixIds ==
    [][/\ EntryRead => ScanAdvances(IF fields.size_id = 3 THEN 3 ELSE 1)
       /\ (pc = "scaling_list" /\ pc' = "scaling_list.matrix")
            => /\ Consumed = 2
               /\ fields'.size_id = 0 /\ fields'.i = 0
       /\ (pc = "scaling_list" /\ pc' = "done" /\ result'.kind = "Ok")
            => \/ /\ Consumed = 1
                  /\ result'.val.v.scaling_list = None
               \/ /\ Consumed = 2
                  /\ result'.val.v.scaling_list = Some("ScalingList")]_vars

\* The whole scan has run: 2 flag bits and 20 entries of 2 bits each
C19_Witness ==
    /\ entry = "scaling_list_read"
    /\ pc = "done"
    /\ result.kind = "Ok"
    /\ result.val.v.scaling_list = Some("ScalingList")
    /\ ctx.pos = 2 + 20 * 2

---------------------------------------------------------------------------
(* Specification of LayerProfile::read called on its own *)

\* Buffers explored: arg describes the buffer, its profile_idc, the
\* compatibility flags that are set and the value of its constraint flag bits
InitLayerProfile ==
    /\ entry = "layer_profile_read"
    /\ arg \in {[profile_idc |-> d[1], compat |-> d[2], flag_bits |-> f]
                  : d \in LayerProfileDraws, f \in Bit}
    /\ pc = "layer_profile_read"
    /\ ctx = CtxCounting
    /\ fields = Fields0
    /\ log = <<>>
    /\ result = Running

LayerProfileRead ==
    /\ pc = "layer_profile_read"
    /\ pc' = "done"
    /\ \E o \in LayerProfile_read_drawn(ctx, {arg.profile_idc}, arg.compat,
                                        {arg.flag_bits}) :
         /\ ctx' = o.ctx
         /\ result' = IF o.ok THEN Returned(o.val) ELSE Failure(o.err)
    /\ UNCHANGED <<entry, fields, log, arg>>

SpecLayerProfile == InitLayerProfile /\ [][LayerProfileRead]_vars

---------------------------------------------------------------------------
(* Properties of LayerProfile::read (specification SpecLayerProfile) *)

NineFlags ==
    {"max_12bit", "max_10bit", "max_8bit", "max_422chroma", "max_420chroma",
     "max_monochrome", "intra", "one_picture_only", "lower_bit_rate"}
AllConstraintFlags == NineFlags \cup {"max_14bit"}

\* The profile p has exactly the constraint flags of set, each with the
\* value of the bits of the buffer, and every other constraint flag false
FlagsRead(p, set) ==
    \A name \in AllConstraintFlags :
       p[name] = (name \in set /\ arg.flag_bits = 1)

\* The block that the key selects: in4to11, in5_9_10_11 and is2 say whether
\* the key is in 4..11, in {5, 9, 10, 11}, is 2
BlockRead(p, in4to11, in5_9_10_11, is2) ==
    IF in4to11
    THEN FlagsRead(p, IF in5_9_10_11 THEN AllConstraintFlags ELSE NineFlags)
    ELSE IF is2 THEN FlagsRead(p, {"one_picture_only"})
    ELSE FlagsRead(p, {})

\* C20 as stated: the block read is selected by profile_idc: 4..11 reads the
\* nine flags (and max_14bit for 5, 9, 10, 11), 2 reads one_picture_only
\* between reserved bits, every other value reads reserved bits only and
\* leaves every constraint flag false.
C20_BlockByProfileIdc ==
    (pc = "done" /\ result.kind = "Ok") =>
      LET p == result.val.v IN
      /\ ctx.pos = 88
      /\ BlockRead(p, p.profile_idc \in 4..11, p.profile_idc \in {5, 9, 10, 11},
                   p.profile_idc = 2)

\* profile_idc is k or profile_compatibility_flag[k] is set, for a k of ks
InFamily(p, ks) ==
    p.profile_idc \in ks \/ p.profile_compatibility_flag \cap ks # {}

\* C20 amended: the block read is selected by profile_idc together with the
\* compatibility flags: the nine flags (and max_14bit) when profile_idc or a
\* set compatibility flag is in 4..11 (in {5, 9, 10, 11}); else
\* one_picture_only between reserved bits when profile_idc is 2 or
\* compatibility flag 2 is set; else reserved bits only, every constraint
\* flag false.  Every block takes 43 bits, the whole structure 88.
C20_BlockByIdcOrCompat ==
    (pc = "done" /\ result.kind = "Ok") =>
      LET p == result.val.v IN
      /\ ctx.pos = 88
      /\ p.profile_idc = arg.profile_idc
      /\ p.profile_compatibility_flag = arg.compat
      /\ BlockRead(p, InFamily(p, 4..11), InFamily(p, {5, 9, 10, 11}),
                   InFamily(p, {2}))

\* profile_idc 0 with compatibility flag 4: the nine flags were read
C20_Witness ==
    /\ pc = "done" /\ result.kind = "Ok"
    /\ arg.profile_idc = 0 /\ arg.compat = {4} /\ arg.flag_bits = 1
    /\ result.val.v.max_12bit /\ result.val.v.lower_bit_rate
    /\ ~result.val.v.max_14bit

---------------------------------------------------------------------------
(* Specification of ShortTermRefPicSet::read_with_count called on its own, *)
(* with a reader that counts the bits it has consumed within its window    *)

InitRps ==
    /\ entry = "read_with_count"
    /\ arg = None
    /\ pc = "st_ref_pic_sets"
    /\ ctx = CtxWindow
    /\ fields = Fields0
    /\ log = <<>>
    /\ result = Running

ShortTermRefPicSet_read_with_count == SpsStRefPicSets \/ SpsStRefPicSet

SpecRps == InitRps /\ [][ShortTermRefPicSet_read_with_count]_vars

\* The call of ShortTermRefPicSet::read that returned last, and the set R it
\* predicted from
LastRps == fields.last_rps.v
LastPredicted == fields.last_rps.some /\ LastRps.predicted
LastRef == fields.sets[LastRps.ref_rps_idx + 1]

\* The four passes as the property states them.  A candidate is a delta with
\* the index of its flags; the candidates of the new S0 are the entries of
\* R.S1 from the last to the first, delta_rps itself, the entries of R.S0
\* from the first to the last; those of the new S1 are the entries of R.S0
\* from the last to the first, delta_rps itself, the entries of R.S1 from the
\* first to the last.  Sums are sums of i32, as the program computes them.
Shifted(e, delta_rps) == WrapI32(WrapI32(e.delta_poc_minus1 + 1) + delta_rps)
Candidate(d, j) == [d |-> d, j |-> j]
CandidatesS0(R, delta_rps) ==
    LET n == Len(R.negative_pics_s0)
        p == Len(R.positive_pics_s1)
    IN  [k \in 1..(p + 1 + n) |->
           IF k <= p
           THEN Candidate(Shifted(R.positive_pics_s1[p + 1 - k], delta_rps),
                          n + (p + 1 - k))
           ELSE IF k = p + 1 THEN Candidate(delta_rps, n + p + 1)
           ELSE Candidate(Shifted(R.negative_pics_s0[k - p - 1], delta_rps),
                          k - p - 1)]
CandidatesS1(R, delta_rps) ==
    LET n == Len(R.negative_pics_s0)
        p == Len(R.positive_pics_s1)
    IN  [k \in 1..(n + 1 + p) |->
           IF k <= n
           THEN Candidate(Shifted(R.negative_pics_s0[n + 1 - k], delta_rps),
                          n + 1 - k)
           ELSE IF k = n + 1 THEN Candidate(delta_rps, n + p + 1)
           ELSE Candidate(Shifted(R.positive_pics_s1[k - n - 1], delta_rps),
                          n + (k - n - 1))]
KeptOf(cands, negative, used, use_delta) ==
    LET kept == SelectSeq(cands, LAMBDA x :
                    (IF negative THEN x.d < 0 ELSE x.d > 0) /\ use_delta[x.j])
    IN  [k \in 1..Len(kept) |->
           ShortTermRef(WrapI32(kept[k].d - 1), used[kept[k].j])]

\* C15: a predicted set is the four-pass reconstruction from its reference
\* set R, order included: delta_rps = (1 - 2*sign) * (abs_delta_rps_minus1 +
\* 1); the new S0 is the kept entries of R.S1 shifted (last to first), the
\* boundary term delta_rps, the kept entries of R.S0 shifted (first to last),
\* an entry being kept when its delta is negative and its use_delta flag is
\* set; the new S1 is the same with R.S0 last to first, the boundary term,
\* R.S1 first to last, and positive deltas; a kept entry stores its delta
\* minus one and its used_by_curr_pic flag.
C15_PredictionMatchesReference ==
    LastPredicted =>
      LET t == LastRps
          R == LastRef
      IN  /\ t.delta_rps = WrapI32((1 - 2 * t.delta_rps_sign)
                                   * WrapI32(t.abs_delta_rps_minus1 + 1))
          /\ t.set.negative_pics_s0 =
               KeptOf(CandidatesS0(R, t.delta_rps), TRUE,
                      t.used_by_curr_pic, t.use_delta)
          /\ t.set.positive_pics_s1 =
               KeptOf(CandidatesS1(R, t.delta_rps), FALSE,
                      t.used_by_curr_pic, t.use_delta)

\* A set predicted with delta_rps = -3 from a set with two distinct entries in
\* each list, all five candidates of the new S0 kept
C15_Witness ==
    /\ LastPredicted
    /\ LastRps.delta_rps = -3
    /\ Len(LastRef.positive_pics_s1) = 2
    /\ LastRef.positive_pics_s1[1] # LastRef.positive_pics_s1[2]
    /\ Len(LastRef.negative_pics_s0) = 2
    /\ LastRef.negative_pics_s0[1] # LastRef.negative_pics_s0[2]
    /\ Len(LastRps.set.negative_pics_s0) = 5

\* The step that ran one call of ShortTermRefPicSet::read to its return
SetRead ==
    pc = "st_ref_pic_sets.set" /\ result'.kind \in {"running", "Ok"}
SetReadPredicted == SetRead /\ fields'.last_rps.v.predicted
TrueCount(flags) == Cardinality({j \in 1..Len(flags) : flags[j]})

\* C16: a set predicted from R reads num_delta_pocs(R) + 1
\* used_by_curr_pic_flag bits; use_delta_flag[j] is true and costs no bit
\* where used_by_curr_pic_flag[j] is false, and is one bit read where it is
\* true; both vectors have length num_delta_pocs(R) + 1.  The bits of the
\* call are then: the prediction flag, delta_idx_minus1 when it is read, the
\* sign, abs_delta_rps_minus1, one bit per j and one more per j whose
\* used_by_curr_pic_flag is set.
C16_PredictionFlagVector ==
    [][SetReadPredicted =>
         LET t == fields'.last_rps.v
             n == num_delta_pocs(fields.sets[t.ref_rps_idx + 1])
         IN  /\ Len(t.used_by_curr_pic) = n + 1
             /\ Len(t.use_delta) = n + 1
             /\ \A j \in 1..(n + 1) : ~t.used_by_curr_pic[j] => t.use_delta[j]
             /\ Consumed = 1 + (IF t.delta_idx_read
                                THEN UeCost(t.delta_idx_minus1) ELSE 0)
                           + 1 + UeCost(t.abs_delta_rps_minus1)
                           + (n + 1) + TrueCount(t.used_by_curr_pic)]_vars

\* A set predicted from a set of four entries, with a flag that is not set
\* (use_delta taken as true) and a flag that is set with use_delta read as 0
C16_Witness ==
    /\ LastPredicted
    /\ num_delta_pocs(LastRef) = 4
    /\ \E j \in 1..5 : ~LastRps.used_by_curr_pic[j] /\ LastRps.use_delta[j]
    /\ \E j \in 1..5 : LastRps.used_by_curr_pic[j] /\ ~LastRps.use_delta[j]

\* C17: read_with_count calls read with st_rps_idx = i < N and the i sets
\* read so far; a predicted set therefore never reads delta_idx_minus1
\* (it is 0), its reference is the set just before it (ref_rps_idx = i - 1),
\* and neither the subtraction i - (delta_idx_minus1 + 1) nor the lookup of
\* the reference set fails.
C17_ReferenceAlwaysValid ==
    /\ pc = "st_ref_pic_sets.set" =>
         fields.i < fields.n /\ Len(fields.sets) = fields.i
    /\ LastPredicted =>
         /\ ~LastRps.delta_idx_read
         /\ LastRps.delta_idx_minus1 = 0
         /\ LastRps.ref_rps_idx = (Len(fields.sets) - 1) - 1
    /\ result.err.name \notin {"unwrap on None",
                               "attempt to subtract with overflow"}

\* The set of index 1 predicted from the set of index 0
C17_Witness ==
    /\ LastPredicted
    /\ Len(fields.sets) = 2
    /\ LastRps.ref_rps_idx = 0
    /\ LastRps.set # fields.sets[1]

\* The bits of a list read explicitly: per entry delta_poc_sX_minus1 as ue
\* (stored as i32, so a value above i32::MAX is stored negative) and one flag
EntryBits(e) ==
    UeCost(IF e.delta_poc_minus1 < 0 THEN e.delta_poc_minus1 + 2^WordBits
           ELSE e.delta_poc_minus1) + 1
RECURSIVE ListBits(_)
ListBits(list) ==
    IF list = <<>> THEN 0 ELSE EntryBits(Head(list)) + ListBits(Tail(list))
ExplicitBits(t) ==
    UeCost(t.num_negative_pics) + UeCost(t.num_positive_pics)
    + ListBits(t.set.negative_pics_s0) + ListBits(t.set.positive_pics_s1)
PredictedBits(t, n) ==
    (IF t.delta_idx_read THEN UeCost(t.delta_idx_minus1) ELSE 0)
    + 1 + UeCost(t.abs_delta_rps_minus1) + (n + 1) + TrueCount(t.used_by_curr_pic)

\* C18: the first set is read without a prediction flag and explicitly: the
\* two counts, then one (delta_poc_minus1, used_by_curr_pic_flag) pair per
\* count for S0 and then for S1, and nothing else, so that the lengths of
\* its lists are the counts; a set of index 1 or more reads one prediction
\* flag bit first, and then what its branch reads.
C18_FirstSetNeverPredicts ==
    [][SetRead =>
         LET t == fields'.last_rps.v
         IN  /\ fields.i = 0 => ~t.predicted /\ Consumed = ExplicitBits(t)
             /\ ~t.predicted =>
                  /\ Len(t.set.negative_pics_s0) = t.num_negative_pics
                  /\ Len(t.set.positive_pics_s1) = t.num_positive_pics
             /\ fields.i >= 1 /\ ~t.predicted => Consumed = 1 + ExplicitBits(t)
             /\ fields.i >= 1 /\ t.predicted =>
                  Consumed = 1 + PredictedBits(t,
                               num_delta_pocs(fields.sets[t.ref_rps_idx + 1]))]_vars

\* The first set read with two entries in each list, and a later set read
\* explicitly behind its prediction flag
C18_Witness ==
    /\ fields.last_rps.some
    /\ ~LastRps.predicted
    /\ Len(fields.sets) = 2
    /\ Len(fields.sets[1].negative_pics_s0) = 2
    /\ Len(fields.sets[1].positive_pics_s1) = 2
    /\ Len(LastRps.set.negative_pics_s0) = 1

---------------------------------------------------------------------------
(* Termination.  from_bits is run as above, on buffers whose bits are      *)
(* chosen as they are read and whose end is a byte of the shapes of Tails; *)
(* read_with_count, whose loops take their trip counts from the bitstream, *)
(* is also run on every buffer of at most MaxBufferBits bits, where a      *)
(* count read is any number its bits spell, far above what the rest of the *)
(* buffer can hold.  The code is sequential and nothing can suspend it: a  *)
(* call that can take a step takes it.  Weak fairness is assumed of the    *)
(* steps of read_with_count only, the steps whose number the buffer        *)
(* decides; for the others the two premises of termination are checked.    *)

MaxBufferBits == 10
FiniteBuffers == UNION {[1..m -> Bit] : m \in 0..MaxBufferBits}

InitFinite ==
    /\ entry = "read_with_count"
    /\ arg = None
    /\ pc = "st_ref_pic_sets"
    /\ ctx \in {[CtxWindow EXCEPT !.known = TRUE, !.tail = t] : t \in FiniteBuffers}
    /\ fields = Fields0
    /\ log = <<>>
    /\ result = Running

SpecTerminates ==
    /\ Init \/ InitFinite
    /\ [][Next]_vars
    /\ WF_vars(ShortTermRefPicSet_read_with_count)

\* The elements of from_bits in the order of the code
Elements ==
    <<"sps_video_parameter_set_id", "sps_max_sub_layers_minus1",
      "sps_temporal_id_nesting", "profile_tier_level", "ptl.general_level_idc",
      "ptl.sub_layer_flags", "ptl.sub_layers", "seq_parameter_set_id",
      "chroma_info", "pic_width_in_luma_samples", "pic_height_in_luma_samples",
      "conformance_window", "bit_depth_luma_minus8", "bit_depth_chroma_minus8",
      "log2_max_pic_order_cnt_lsb_minus4", "sub_layering_ordering_info",
      "layer_info.layers", "log2_min_luma_coding_block_size_minus3",
      "max_transform_hierarchy_depth_inter", "max_transform_hierarchy_depth_intra",
      "scaling_list", "scaling_list.matrix", "amp_enabled",
      "sample_adaptive_offset_enabled", "pcm", "st_ref_pic_sets",
      "st_ref_pic_sets.set", "long_term_ref_pics_sps",
      "long_term_ref_pics_sps.one", "sps_termporal_mvp_enabled",
      "strong_intra_smoothing_enabled", "vui_parameters", "vui.aspect_ratio_info",
      "vui.overscan_appropriate", "vui.video_signal_type", "vui.chroma_loc_info",
      "vui.flags", "vui.default_display_window", "vui.timing_info",
      "vui.hrd_parameters", "vui.hrd_sub_layers", "vui.bitstream_restrictions",
      "sps_extension", "sps_extension.data", "finish_rbsp", "done">>
Position(p) == CHOOSE k \in 1..Len(Elements) : Elements[k] = p

\* The turns a loop still has to make at most: what is left of a count
\* parsed before the loop, of a fixed range, or of the bits of the buffer
TurnsLeft(p, f, c) ==
    CASE p = "ptl.sub_layers" -> 7 - f.i
      [] p \in {"layer_info.layers", "st_ref_pic_sets.set",
                "long_term_ref_pics_sps.one"} -> f.n - f.i
      [] p = "scaling_list.matrix" -> 6 * (4 - f.size_id) - f.i
      [] p = "vui.hrd_sub_layers" -> f.msl + 1 - f.i
      [] p = "sps_extension.data" -> IF c.known THEN Len(c.tail) ELSE 8 + 1
      [] OTHER -> 0

\* A step moves to a later element, or makes a turn of the loop it stands in
\* and leaves fewer turns
Decreases ==
    \/ Position(pc') > Position(pc)
    \/ /\ pc' = pc
       /\ TurnsLeft(pc', fields', ctx') < TurnsLeft(pc, fields, ctx)
       /\ TurnsLeft(pc', fields', ctx') >= 0

\* A turn of a loop of read_with_count on a finite buffer leaves fewer bits
EveryTurnConsumes ==
    entry = "read_with_count" /\ ctx.known /\ result'.kind = "running"
      => Len(ctx'.tail) < Len(ctx.tail)

\* C14: the call ends on every buffer.  A call that has not ended can take a
\* step that changes its state; every step moves to a later element or makes
\* a turn of a loop that leaves fewer turns, the turns left being what is
\* left of a parsed count, of a fixed range or of the bits of the buffer; on
\* a finite buffer every turn of the loops of read_with_count consumes at
\* least one bit and the call reaches its end, whatever count the buffer
\* spells; a call that has ended has returned Ok or Err (or has panicked
\* where C1 says it does).
C14_Terminates ==
    /\ [](result.kind = "running" => ENABLED <<Next>>_vars)
    /\ [][Decreases]_vars
    /\ [][EveryTurnConsumes]_vars
    /\ [](pc = "done" <=> result.kind \in {"Ok", "Err", "Panic"})
    /\ (entry = "read_with_count") => <>(pc = "done")

\* A count of sets read from the buffer that is larger than the whole
\* buffer: the first set is read, the next one finds no bits, the call
\* returns OutOfBits
C14_Witness ==
    /\ entry = "read_with_count"
    /\ ctx.known
    /\ fields.n > MaxBufferBits
    /\ Len(fields.sets) >= 1
    /\ result.kind = "Err"
    /\ result.err.why = "OutOfBits"

---------------------------------------------------------------------------
(* src/nal/sps.rs, the tests of from_bits: the NAL units of test_sps, and  *)
(* the two parses of one buffer                                            *)

TestNal1 ==
    <<
      66, 1, 1, 1, 96, 0, 0, 3, 0, 176, 0, 0, 3, 0, 0, 3, 0, 93, 160, 5,
      194, 0, 144, 113, 62, 135, 238, 70, 209, 46, 63, 240, 4, 0, 2, 208,
      16, 0, 0, 3, 0, 16, 0, 0, 3, 1, 150, 0, 0, 3, 0, 224, 0, 73, 62, 0,
      11, 184, 72
    >>
TestNal2 ==
    <<
      66, 1, 1, 1, 64, 0, 0, 3, 0, 64, 0, 0, 3, 0, 0, 3, 0, 123, 160, 3,
      192, 128, 34, 31, 121, 233, 110, 68, 161, 127, 248, 0, 8, 0, 19, 80,
      16, 16, 30, 208, 0, 0, 3, 0, 16, 0, 0, 3, 3, 37, 8, 255, 222, 16, 0,
      22, 227, 96, 0, 5, 221, 119, 223, 8, 4, 16
    >>
TestNal3 ==
    <<
      66, 1, 1, 1, 96, 0, 0, 3, 0, 144, 0, 0, 3, 0, 0, 3, 0, 123, 160, 3,
      192, 128, 16, 229, 137, 147, 146, 76, 138, 73, 36, 147, 233, 250,
      122, 222, 2, 2, 0, 0, 3, 0, 2, 0, 0, 3, 0, 100, 195, 73, 79, 60, 0,
      30, 132, 128, 3, 208, 145
    >>

\* decode_nal: the NAL unit without its two header bytes and without the
\* emulation prevention bytes (a byte 3 that follows two bytes 0)
RECURSIVE Unescape(_, _)
Unescape(bytes, zeros) ==
    IF bytes = <<>> THEN <<>>
    ELSE IF zeros >= 2 /\ Head(bytes) = 3 THEN Unescape(Tail(bytes), 0)
    ELSE <<Head(bytes)>>
         \o Unescape(Tail(bytes), IF Head(bytes) = 0 THEN zeros + 1 ELSE 0)
decode_nal(bytes) == Unescape(SubSeq(bytes, 3, Len(bytes)), 0)

\* BitReader::new(buf): the bits of the bytes, most significant first
BitsOfBytes(bytes) ==
    [k \in 1..(8 * Len(bytes)) |->
       (bytes[(k + 7) \div 8] \div (2^(7 - ((k - 1) % 8)))) % 2]
BitReader_new(bytes) ==
    [Ctx0 EXCEPT !.known = TRUE, !.tail = BitsOfBytes(bytes)]

\* Further RBSP buffers that from_bits accepts, with the structures that the
\* buffers of test_sps lack: scaling lists, long-term reference pictures and
\* extension data;
RbspScalingLists ==
    <<
      240, 4, 0, 0, 0, 0, 176, 0, 0, 0, 0, 0, 93, 8, 47, 215, 45, 127,
      127, 255, 244, 146, 73, 36, 146, 73, 42, 73, 36, 146, 73, 36,
      145, 21, 36, 146, 73, 36, 146, 73, 36, 146, 73, 36, 146, 73, 36,
      146, 73, 36, 146, 73, 36, 146, 73, 36, 146, 72, 191, 255, 255,
      255, 255, 255, 255, 255, 255, 255, 255, 255, 255, 255, 255, 255,
      242, 127, 255, 255, 255, 255, 255, 255, 255, 248, 0, 255, 255,
      255, 255, 255, 255, 255, 255, 255, 255, 255, 255, 255, 255, 255,
      255, 255, 255, 73, 36, 146, 73, 36, 146, 73, 36, 146, 73, 36,
      146, 73, 36, 146, 73, 36, 146, 73, 36, 146, 73, 36, 146, 128,
      15, 255, 255, 255, 255, 255, 255, 255, 255, 255, 47, 255, 255,
      255, 255, 255, 255, 255, 253, 224, 10, 213, 72, 11
    >>
\* VUI with timing info, HRD parameters and bitstream restrictions;
RbspHrd ==
    <<
      240, 9, 0, 0, 0, 0, 191, 252, 0, 0, 0, 1, 93, 8, 62, 181, 170,
      255, 112, 14, 151, 204, 67, 5, 120, 0, 0, 0, 0, 0, 0, 0, 207,
      134, 146, 158, 127, 255, 160
    >>
\* two short-term reference picture sets, the second one predicted from the
\* first with abs_delta_rps_minus1 = i32::MAX;
RbspPredictedSets ==
    <<
      243, 0, 2, 0, 0, 0, 176, 0, 0, 0, 0, 0, 93, 128, 0, 2, 0, 0, 0,
      0, 176, 16, 0, 0, 0, 0, 8, 87, 252, 181, 249, 128, 41, 240, 0,
      128, 14, 151, 192, 105, 192, 64, 64, 126, 64, 0, 0, 0, 64, 0, 0,
      6, 94, 0, 0, 13, 2, 83, 201, 255, 223, 255, 191, 160
    >>
\* one sub-layer with its own profile and level;
RbspSubLayers ==
    <<
      242, 0, 4, 0, 0, 0, 191, 252, 0, 0, 0, 0, 93, 128, 0, 4, 0, 0,
      0, 0, 191, 248, 0, 0, 0, 0, 8, 16, 181, 245, 90, 255, 16, 14,
      215, 192, 4, 0, 107, 73, 39, 17, 175, 1, 1, 1, 26, 240, 0, 0, 0,
      16, 0, 0, 3, 47, 192, 0, 1, 160, 74, 121, 63, 248, 95, 255, 255,
      235, 224, 16
    >>
\* and RbspHrd with time_scale = 0 next to its num_units_in_tick = 0
RbspZeroTicks == [RbspHrd EXCEPT ![33] = 7]

\* The buffers parsed twice: the buffers above and what is left of each
\* when it is cut short after any number of bytes
Prefixes(bytes) == {SubSeq(bytes, 1, n) : n \in 0..Len(bytes)}
RbspBuffers ==
    UNION {Prefixes(bytes) : bytes \in {decode_nal(TestNal1), decode_nal(TestNal2),
                                        decode_nal(TestNal3), RbspScalingLists,
                                        RbspHrd, RbspPredictedSets,
                                        RbspSubLayers, RbspZeroTicks}}
Builds == {"debug", "release"}

\* Level::from_level_idc
Level_from_level_idc(level_idc) ==
    CASE level_idc = 30 -> "L1"
      [] level_idc = 60 -> "L2"
      [] level_idc = 63 -> "L2_1"
      [] level_idc = 90 -> "L3"
      [] level_idc = 93 -> "L3_1"
      [] level_idc = 120 -> "L4"
      [] level_idc = 123 -> "L4_1"
      [] level_idc = 150 -> "L5"
      [] level_idc = 153 -> "L5_1"
      [] level_idc = 156 -> "L5_2"
      [] level_idc = 180 -> "L6"
      [] level_idc = 183 -> "L6_1"
      [] level_idc = 186 -> "L6_2"
      [] level_idc = 255 -> "L8_5"
      [] OTHER -> <<"Reserved", level_idc>>

\* general_layer_profile(): .expect("SPS always has general profile")
general_layer_profile(sps) ==
    IF sps.general_profile.some
    THEN [ok |-> TRUE, val |-> sps.general_profile.v]
    ELSE [ok |-> FALSE, err |-> Panic("SPS always has general profile")]

\* The SeqParameterSet that from_bits returned, as far as its queries read it
SpsOf(f) ==
    [chroma_info |-> f.chroma_info.v,
     pic_width_in_luma_samples |-> f.pic_width_in_luma_samples,
     pic_height_in_luma_samples |-> f.pic_height_in_luma_samples,
     conformance_window |-> f.conformance_window,
     vui_parameters |-> f.vui_parameters,
     general_profile |-> f.general_profile,
     general_level_idc |-> f.general_level_idc]

\* pixel_dimensions(), fps(), general_profile(), general_tier() and
\* general_level() of the value that a parse returned
Queries(r) ==
    IF r.kind # "Ok" THEN None
    ELSE LET sps == SpsOf(r.val.v)
             layer == general_layer_profile(sps)
         IN Some([pixel_dimensions |-> pixel_dimensions(sps),
                  fps |-> fps(sps),
                  general_profile |->
                    IF layer.ok THEN LayerProfile_profile(layer.val) ELSE layer,
                  general_tier |->
                    IF layer.ok THEN LayerProfile_tier(layer.val) ELSE layer,
                  general_level |-> Level_from_level_idc(sps.general_level_idc)])

\* == of f64: a NaN is equal to nothing, itself included
F64Eq(x, y) == x.kind # "nan" /\ y.kind # "nan" /\ x = y
\* == of Option<f64>
OptionF64Eq(a, b) == a.some = b.some /\ (a.some => F64Eq(a.v, b.v))
\* == of the answers of the five queries, one by one
QueriesEq(p, q) ==
    /\ p.some = q.some
    /\ p.some =>
         /\ p.v.pixel_dimensions = q.v.pixel_dimensions
         /\ OptionF64Eq(p.v.fps, q.v.fps)
         /\ p.v.general_profile = q.v.general_profile
         /\ p.v.general_tier = q.v.general_tier
         /\ p.v.general_level = q.v.general_level
\* The same with the two fps() also equal when both are Some(NaN)
IsNaN(a) == a.some /\ a.v.kind = "nan"
QueriesEqOrNaN(p, q) ==
    /\ p.some = q.some
    /\ p.some =>
         /\ p.v.pixel_dimensions = q.v.pixel_dimensions
         /\ \/ OptionF64Eq(p.v.fps, q.v.fps)
            \/ IsNaN(p.v.fps) /\ IsNaN(q.v.fps)
         /\ p.v.general_profile = q.v.general_profile
         /\ p.v.general_tier = q.v.general_tier
         /\ p.v.general_level = q.v.general_level

\* What a caller of from_bits can see of one parse: the result, and (ghost)
\* the reader afterwards with the values it gave and the elements read
Outcome == [result |-> result, ctx |-> ctx, log |-> log]

\* from_bits(BitReader::new(&*sps_rbsp)), in one build of the program
InitTwice ==
    /\ entry = "from_bits"
    /\ pc = "sps_video_parameter_set_id"
    /\ \E bytes \in RbspBuffers, build \in Builds :
         /\ arg = Some([bytes |-> bytes, first |-> None])
         /\ ctx = [BitReader_new(bytes) EXCEPT !.build = build, !.keep = TRUE]
    /\ fields = Fields0
    /\ log = <<>>
    /\ result = Running

\* The second from_bits on a new reader over the same bytes, in the same
\* build; nothing of the first parse is left but its outcome (arg.first)
ParseAgain ==
    /\ entry = "from_bits"
    /\ arg.some
    /\ ~arg.v.first.some
    /\ pc = "done"
    /\ arg' = Some([arg.v EXCEPT !.first = Some(Outcome)])
    /\ pc' = "sps_video_parameter_set_id"
    /\ ctx' = [BitReader_new(arg.v.bytes) EXCEPT !.build = ctx.build,
                                                 !.keep = TRUE]
    /\ fields' = Fields0
    /\ log' = <<>>
    /\ result' = Running
    /\ UNCHANGED entry

NextTwice == Next \/ ParseAgain

SpecTwice == InitTwice /\ [][NextTwice]_vars

SecondParseDone == arg.some /\ arg.v.first.some /\ pc = "done"
FirstOutcome == arg.v.first.v

---------------------------------------------------------------------------
(* ProfileTierLevel::read: the seven sub-layer slots *)

\* The bits that one step of ProfileTierLevel::read called on its own took
PtlConsumed == ctx'.pos - ctx.pos
FlagsRead21 == pc = "ptl.sub_layer_flags" /\ result'.kind \in {"running", "Ok"}
SlotRead == pc = "ptl.sub_layers" /\ result'.kind \in {"running", "Ok"}
SlotBits(slot) ==
    (IF slot.profile THEN 88 ELSE 0) + (IF slot.level_idc THEN 8 ELSE 0)

\* C21: sub_layers has exactly 7 slots; a slot i >= max_sub_layers_minus1
\* has neither profile nor level and costs no bits; a slot below it has a
\* profile iff its sub_layer_profile_present_flag was set and a level iff
\* its sub_layer_level_present_flag was set; the presence flags and the
\* reserved pairs take no bits when max_sub_layers_minus1 is 0 and 8 two-bit
\* groups otherwise.
C21_SubLayerSlots ==
    [][/\ FlagsRead21 =>
            /\ PtlConsumed = IF fields.msl = 0 THEN 0 ELSE 2 * 8
            /\ \A i \in 1..7 :
                 i > fields.msl =>
                   /\ ~fields'.sub_layer_profile_present_flag[i]
                   /\ ~fields'.sub_layer_level_present_flag[i]
       /\ SlotRead =>
            LET slot == fields'.last_slot.v IN
            /\ fields.i \in 0..6
            /\ (pc' = "done") <=> (fields.i = 6)
            /\ slot.profile = fields.sub_layer_profile_present_flag[fields.i + 1]
            /\ slot.level_idc = fields.sub_layer_level_present_flag[fields.i + 1]
            /\ PtlConsumed = SlotBits(slot)
            /\ fields.i >= fields.msl =>
                 ~slot.profile /\ ~slot.level_idc /\ PtlConsumed = 0]_vars

\* All seven slots are written with two sub-layers in use: the last slot is
\* empty, and the first one was read with a profile
C21_Witness ==
    /\ entry = "ptl_read"
    /\ result.kind = "Ok"
    /\ fields.msl = 2
    /\ fields.i = 6
    /\ fields.sub_layer_profile_present_flag[1]
    /\ ~fields.last_slot.v.profile

---------------------------------------------------------------------------
(* The structures of the SPS that a presence flag gates, each read on its  *)
(* own from a reader that keeps the values it returns                      *)

Gates ==
    {"aspect_ratio_info", "overscan_appropriate", "video_signal_type",
     "colour_description", "chroma_loc_info", "window", "timing_info",
     "hrd_parameters", "bitstream_restrictions", "pcm", "scaling_list",
     "vui_parameters", "long_term_ref_pics_sps"}

\* The read of structure g, up to where from_bits goes on with its next step
GatedRead(g, c) ==
    CASE g = "aspect_ratio_info" -> AspectRatioInfo_read(c)
      [] g = "overscan_appropriate" -> OverscanAppropriate_read(c)
      [] g = "video_signal_type" -> VideoSignalType_read(c)
      [] g = "colour_description" -> ColourDescription_read(c)
      [] g = "chroma_loc_info" -> ChromaLocInfo_read(c)
      [] g = "window" -> Window_read(c)
      [] g = "timing_info" -> TimingInfo_read_head(c)
      [] g = "hrd_parameters" -> HrdParameters_read_common(c, TRUE)
      [] g = "bitstream_restrictions" -> BitstreamRestrictions_read(c)
      [] g = "pcm" -> Pcm_read(c)
      [] g = "scaling_list" ->
           MapVal(ScalingList_read_flags(c),
                  LAMBDA v : IF v = 0 THEN None ELSE Some(v))
      [] g = "vui_parameters" ->
           MapVal(VuiParameters_read_flag(c),
                  LAMBDA v : IF v THEN Some(v) ELSE None)
      [] g = "long_term_ref_pics_sps" -> LongTermRefPicSps_read_count(c)

\* The value that stands for an absent structure
EmptyOf(g) == IF g = "overscan_appropriate" THEN "Unspecified" ELSE None

InitGate ==
    /\ entry = "gate"
    /\ arg \in [gate : Gates, pos : 0..7]
    /\ pc = "gate"
    /\ ctx = [CtxCounting EXCEPT !.pos = arg.pos, !.keep = TRUE]
    /\ fields = Fields0
    /\ log = <<>>
    /\ result = Running

ReadGated ==
    /\ entry = "gate"
    /\ Step("gate", arg.gate, GatedRead(arg.gate, ctx),
            LAMBDA v : Goto("done", [fields EXCEPT !.gated = v]))

SpecGate == InitGate /\ [][ReadGated]_vars

FlagReadFalse ==
    entry = "gate" /\ result.kind = "Ok" /\ ctx.values[1] = 0

\* C22: when the presence flag of a gated structure is read as false, the
\* parser reads that one bit and nothing else for the structure, the
\* structure's value is the empty one (None, or Unspecified for the overscan
\* information), and the reader stands on the very next bit.
C22_PresenceFlagGating ==
    FlagReadFalse =>
      /\ Len(ctx.values) = 1
      /\ ctx.pos = arg.pos + 1
      /\ fields.gated = EmptyOf(arg.gate)

\* The flag of the default display window was read as false in mid-byte
C22_Witness ==
    /\ FlagReadFalse
    /\ arg.gate = "window"
    /\ arg.pos = 3
    /\ fields.gated = None

---------------------------------------------------------------------------
(* SubLayerHrdParametersContainer::read on its own, for each combination of *)
(* its three arguments, from a reader that keeps the names it is asked for  *)

InitHrd ==
    /\ entry = "sub_layer_hrd"
    /\ arg \in [nal : BOOLEAN, vcl : BOOLEAN, sub_pic : BOOLEAN]
    /\ pc = "sub_layer_hrd"
    /\ ctx = [CtxCounting EXCEPT !.keep = TRUE]
    /\ fields = Fields0
    /\ log = <<>>
    /\ result = Running

ReadSubLayerHrd ==
    /\ entry = "sub_layer_hrd"
    /\ Step("sub_layer_hrd", "sub_layer_hrd",
            SubLayerHrdParametersContainer_read(ctx, arg.nal, arg.vcl, arg.sub_pic),
            LAMBDA v : Goto("done", [fields EXCEPT !.sub_layer_hrd = Some(v)]))

SpecHrd == InitHrd /\ [][ReadSubLayerHrd]_vars

\* How many times the reader was asked for the element called name
TimesRead(name) == Cardinality({k \in DOMAIN ctx.names : ctx.names[k] = name})
WasRead(name) == TimesRead(name) = 1
NotRead(name) == TimesRead(name) = 0

HrdEntries(list, cpb_cnt_minus1) ==
    list.some => Len(list.v) = cpb_cnt_minus1 + 1

\* C23: in a sub-layer HRD container that was read, the within-cvs flag was
\* read exactly when the general flag is false and is true otherwise, the
\* elemental duration was read exactly when the within-cvs flag is true and
\* is 0 otherwise, the low-delay flag was read exactly when the within-cvs
\* flag is false and is false otherwise, cpb_cnt_minus1 was read exactly
\* when the low-delay flag is false and is 0 otherwise, and each of the NAL
\* and VCL lists that is present has cpb_cnt_minus1 + 1 entries.
C23_SubLayerHrdDependencies ==
    (entry = "sub_layer_hrd" /\ result.kind = "Ok") =>
      LET h == fields.sub_layer_hrd.v IN
      /\ WasRead("fixed_pic_rate_general_flag")
      /\ IF h.fixed_pic_rate_general_flag
         THEN NotRead("fixed_pic_rate_within_cvs_flag")
              /\ h.fixed_pic_rate_within_cvs_flag
         ELSE WasRead("fixed_pic_rate_within_cvs_flag")
      /\ IF h.fixed_pic_rate_within_cvs_flag
         THEN /\ WasRead("elemental_duration_in_tc_minus1")
              /\ NotRead("low_delay_hrd_flag")
              /\ ~h.low_delay_hrd_flag
         ELSE /\ NotRead("elemental_duration_in_tc_minus1")
              /\ h.elemental_duration_in_tc_minus1 = 0
              /\ WasRead("low_delay_hrd_flag")
      /\ IF h.low_delay_hrd_flag
         THEN NotRead("cpb_cnt_minus1") /\ h.cpb_cnt_minus1 = 0
         ELSE WasRead("cpb_cnt_minus1")
      /\ h.nal_hrd_parameters.some = arg.nal
      /\ h.vcl_hrd_parameters.some = arg.vcl
      /\ HrdEntries(h.nal_hrd_parameters, h.cpb_cnt_minus1)
      /\ HrdEntries(h.vcl_hrd_parameters, h.cpb_cnt_minus1)
      /\ TimesRead("cbr_flag")
           = (AsU8(arg.nal) + AsU8(arg.vcl)) * (h.cpb_cnt_minus1 + 1)

\* A container with a non-zero elemental duration and two entries in each list
C23_Witness ==
    /\ entry = "sub_layer_hrd"
    /\ result.kind = "Ok"
    /\ ~fields.sub_layer_hrd.v.fixed_pic_rate_general_flag
    /\ fields.sub_layer_hrd.v.elemental_duration_in_tc_minus1 = 1
    /\ fields.sub_layer_hrd.v.cpb_cnt_minus1 = 1
    /\ arg.nal /\ arg.vcl
    /\ Len(fields.sub_layer_hrd.v.nal_hrd_parameters.v) = 2
    /\ Len(fields.sub_layer_hrd.v.vcl_hrd_parameters.v) = 2

---------------------------------------------------------------------------
(* The family that LayerProfile::profile classifies in (specification      *)
(* SpecProfile)                                                            *)

\* k is the smallest family of p
IsLowest(k, p) == k \in FamiliesOf(p) /\ \A j \in FamiliesOf(p) : k <= j

\* C24: profile() returns the lowest compatible profile: it classifies
\* within the smallest family k of 1..11 that profile_idc names or whose
\* compatibility flag is set, so a compatibility flag with a lower index
\* overrides a higher profile_idc, and it returns Unknown(profile_idc) when
\* there is no such family.
C24_LowestCompatibleProfile ==
    pc = "done" /\ entry = "profile" =>
      /\ \A k \in 1..11 :
           IsLowest(k, arg) => result.val.v \in TableAssigns(k, arg)
      /\ FamiliesOf(arg) = {} => result.val.v = Unknown(arg.profile_idc)

\* profile_idc 4 with the compatibility flag of family 2 set is classified
\* in family 2
C24_Witness ==
    /\ pc = "done" /\ entry = "profile"
    /\ arg.profile_idc = 4
    /\ arg.profile_compatibility_flag = {2}
    /\ ~arg.one_picture_only
    /\ result.val.v = Named("Main10")

---------------------------------------------------------------------------
(* The range of the signed arithmetic of ShortTermRefPicSet::read           *)
(* (specification SpecRps)                                                  *)

EntriesOf(set) ==
    {set.negative_pics_s0[j] : j \in DOMAIN set.negative_pics_s0}
    \cup {set.positive_pics_s1[j] : j \in DOMAIN set.positive_pics_s1}

\* C25: the signed arithmetic of a short-term reference picture set stays
\* in the range of i32: no execution ends in an overflow panic; in a
\* predicted set abs_delta_rps_minus1 + 1, delta_rps = (1 - 2 * sign) *
\* (abs_delta_rps_minus1 + 1), every delta_poc_minus1 + 1 + delta_rps and
\* the d_poc - 1 that is stored are the exact integers; an explicitly coded
\* delta_poc_minus1 is stored as the value read, never as a negative number.
C25_RpsArithmeticInRange ==
    /\ result.kind = "Panic" => result.err.name # "attempt to add with overflow"
    /\ LastPredicted =>
         /\ InI32(LastRps.abs_delta_rps_minus1 + 1)
         /\ LastRps.delta_rps
              = (1 - 2 * LastRps.delta_rps_sign) * (LastRps.abs_delta_rps_minus1 + 1)
         /\ \A e \in EntriesOf(LastRef) :
              /\ InI32(e.delta_poc_minus1 + 1)
              /\ InI32(e.delta_poc_minus1 + 1 + LastRps.delta_rps)
         /\ \A k \in DOMAIN CandidatesS0(LastRef, LastRps.delta_rps) :
              LET x == CandidatesS0(LastRef, LastRps.delta_rps)[k] IN
              (x.d # 0 /\ LastRps.use_delta[x.j]) => InI32(x.d - 1)
    /\ (fields.last_rps.some /\ ~LastRps.predicted) =>
         \A e \in EntriesOf(LastRps.set) : e.delta_poc_minus1 >= 0

\* C26: the direction of S0 and S1 is preserved across prediction: a set
\* predicted with delta_rps < 0 from a reference set whose S1 is empty has an
\* empty S1.
C26_DirectionPreserved ==
    (LastPredicted /\ LastRps.delta_rps < 0 /\ LastRef.positive_pics_s1 = <<>>)
      => LastRps.set.positive_pics_s1 = <<>>

\* The flag indexes j of the reference set whose candidate is kept: the
\* shifted delta is not 0 and use_delta[j] is set
KeptIndexes(t, R) ==
    {k \in DOMAIN CandidatesS0(R, t.delta_rps) :
       LET x == CandidatesS0(R, t.delta_rps)[k] IN x.d # 0 /\ t.use_delta[x.j]}

\* C27: a set predicted from R has at most num_delta_pocs(R) + 1 entries:
\* each entry of R and the boundary term yields one entry of one list when
\* its shifted delta is not 0 and its use_delta flag is set, and none
\* otherwise; every entry of the new S0 stores a value <= -2 and every entry
\* of the new S1 a value >= 0; reading a set leaves the sets read before it
\* as they were.
C27_PredictedSetBound ==
    [][SetRead =>
         /\ SubSeq(fields'.sets, 1, Len(fields.sets)) = fields.sets
         /\ fields'.last_rps.v.predicted =>
              LET t == fields'.last_rps.v
                  R == fields'.sets[t.ref_rps_idx + 1]
                  S0 == t.set.negative_pics_s0
                  S1 == t.set.positive_pics_s1
              IN  /\ Len(S0) + Len(S1) <= num_delta_pocs(R) + 1
                  /\ Len(S0) + Len(S1) = Cardinality(KeptIndexes(t, R))
                  /\ \A j \in DOMAIN S0 : S0[j].delta_poc_minus1 <= -2
                  /\ \A j \in DOMAIN S1 : S1[j].delta_poc_minus1 >= 0]_vars

\* No sum of the derivation of t from R leaves the range of i32
RpsSumsInRange(t, R) ==
    /\ t.abs_delta_rps_minus1 < I32Max
    /\ \A x \in EntriesOf(R) : InI32(x.delta_poc_minus1 + t.delta_rps)

\* The signs stored by a predicted set whose sums stay in range
RpsSignsWithoutOverflow ==
    (LastPredicted /\ RpsSumsInRange(LastRps, LastRef)) =>
      /\ \A j \in DOMAIN LastRps.set.negative_pics_s0 :
           LastRps.set.negative_pics_s0[j].delta_poc_minus1 <= -2
      /\ \A j \in DOMAIN LastRps.set.positive_pics_s1 :
           LastRps.set.positive_pics_s1[j].delta_poc_minus1 >= 0

---------------------------------------------------------------------------
(* LongTermRefPicSps::read on its own, from a reader that counts its bits  *)
(* and keeps the names and values it returns                               *)

InitLongTerm ==
    /\ entry = "long_term_ref_pics_sps"
    /\ arg \in [pos : 0..7]
    /\ pc = "long_term_ref_pics_sps"
    /\ ctx = [CtxCounting EXCEPT !.pos = arg.pos, !.keep = TRUE]
    /\ fields = Fields0
    /\ log = <<>>
    /\ result = Running

LongTermRefPicSps_read == SpsLongTermRefPics \/ SpsLongTermRefPic

SpecLongTerm == InitLongTerm /\ [][LongTermRefPicSps_read]_vars

\* The step that ran one call of LongTermRefPicSps::read_one to its return
LongTermEntryRead ==
    pc = "long_term_ref_pics_sps.one" /\ result'.kind \in {"running", "Ok"}

\* num_long_term_ref_pics_sps as it was read, 0 when it was not
NumLongTermRefPicsSps ==
    IF Len(ctx.values) >= 2 /\ ctx.values[1] = 1 THEN ctx.values[2] ELSE 0

\* C28: LongTermRefPicSps::read reads num_long_term_ref_pics_sps entries,
\* and in each entry used_by_curr_pic_lt_sps_flag takes exactly one bit:
\* an entry costs the bits of lt_ref_pic_pic_lsb_sps and one more.
C28_LongTermEntries ==
    [][/\ LongTermEntryRead =>
            /\ Len(ctx'.values) = Len(ctx.values) + 2
            /\ ctx'.pos - ctx.pos = UeCost(ctx'.values[Len(ctx.values) + 1]) + 1
       /\ (entry = "long_term_ref_pics_sps" /\ result'.kind = "Ok") =>
            TimesRead("used_by_curr_pic_lt_sps_flag")' = NumLongTermRefPicsSps'
      ]_vars

---------------------------------------------------------------------------
(* What every SeqParameterSet returned by from_bits holds (specification   *)
(* Spec)                                                                   *)

\* C29: every SPS that from_bits returns has its general profile, a
\* sps_max_sub_layers_minus1 of at most 7 and a video parameter set id of at
\* most 15, so general_layer_profile() finds the profile it expects; and
\* from_bits fails neither with BadVideoParamSetId nor with
\* FieldValueTooLarge for max_num_sub_layers_minus1.
C29_ReturnedSpsHasGeneralProfile ==
    entry = "from_bits" =>
      /\ result.kind = "Ok" =>
           /\ result.val.v.general_profile.some
           /\ general_layer_profile(result.val.v).ok
           /\ result.val.v.msl <= MaxSubLayersMinus1Limit
           /\ result.val.v.vps_id <= VideoParamSetIdMax
      /\ result.kind = "Err" =>
           /\ result.err.kind # "BadVideoParamSetId"
           /\ ~(result.err.kind = "FieldValueTooLarge"
                  /\ result.err.name = "max_num_sub_layers_minus1")

\* An SPS was returned with the widest sub-layer count and the widest id
C29_Witness ==
    /\ entry = "from_bits"
    /\ result.kind = "Ok"
    /\ result.val.v.msl = MaxSubLayersMinus1Limit
    /\ result.val.v.vps_id = VideoParamSetIdMax
    /\ result.val.v.general_profile.some

---------------------------------------------------------------------------
(* The length of a LayerProfile (specification SpecLayerProfile) *)

\* profile_space .. frame_only_constraint_flag; the reserved bits of the
\* last block; head, block and the last bit (88)
LayerProfileHeadBits == 2 + 1 + 5 + 32 + 4
LayerProfileBlockBits == 32 + 11
LayerProfileBits == LayerProfileHeadBits + LayerProfileBlockBits + 1

\* The bits that a sequence of fixed-width reads takes
RECURSIVE ItemsBits(_)
ItemsBits(items) ==
    IF items = <<>> THEN 0 ELSE Head(items).n + ItemsBits(Tail(items))

\* C30: every LayerProfile::read that succeeds has taken exactly 88 bits:
\* 44 up to frame_only_constraint_flag, 43 in whichever constraint block the
\* profile selects, and one for inbld_flag or reserved_zero_bit; a read that
\* fails has taken fewer.
C30_LayerProfileLength ==
    (entry = "layer_profile_read" /\ pc = "done") =>
      /\ result.kind = "Ok" =>
           /\ ctx.pos = LayerProfileBits
           /\ ItemsBits(LayerProfile_head({arg.profile_idc}, arg.compat))
                = LayerProfileHeadBits
           /\ ItemsBits(LayerProfile_block(arg.profile_idc, arg.compat,
                                           {arg.flag_bits}))
                = LayerProfileBlockBits
           /\ LayerProfileBits = LayerProfileHeadBits + LayerProfileBlockBits + 1
      /\ result.kind # "Ok" => ctx.pos < LayerProfileBits

\* A profile of family 2, read through the block 7 + 1 + 35
C30_Witness ==
    /\ entry = "layer_profile_read" /\ pc = "done" /\ result.kind = "Ok"
    /\ arg.profile_idc = 2 /\ arg.compat = {} /\ arg.flag_bits = 1
    /\ result.val.v.one_picture_only
    /\ ctx.pos = LayerProfileBits

====
